---- MODULE Spec2Model ----
(***************************************************************************)
(* Model of the inline-XBRL core of sec-mcp: the document locator          *)
(* (getXbrlInstanceUrl), the download-and-parse step (parseXbrlInstance),  *)
(* the annotation extractor (extractFactsFromIxbrl), the context resolver  *)
(* (extractContextsFromIxbrl), the fact matcher (findDimensionalFacts) and *)
(* the convenience entry point getDimensionalFacts.                        *)
(*                                                                         *)
(* Text is a sequence of one-character strings, so that parsing,           *)
(* formatting and substring tests are computed, not assumed.  Markup is a  *)
(* sequence of elements, each with its attribute list in document order;   *)
(* the regular expressions of the source are evaluated on that token       *)
(* level with the greedy, first-match semantics of the JavaScript engine.  *)
(***************************************************************************)
EXTENDS Integers, Sequences, FiniteSets, TLC

VARIABLES
  \* ---- the pure pipeline: extract, resolve, match (xbrl-parser.js) ----
  ppc,          \* "input" | "parsed" | "matched"
  markup,       \* the document markup handed to the extractor
  criteria,     \* the search criteria handed to the matcher
  facts,        \* result of extractFactsFromIxbrl
  contexts,     \* result of extractContextsFromIxbrl
  matches,      \* result of findDimensionalFacts
  \* ---- one invocation of getDimensionalFacts (edgar-api.js) ----
  pc,           \* position of the invocation
  args,         \* the arguments of the invocation
  loc,          \* locals of getXbrlInstanceUrl
  reqLog,       \* every request issued so far, in order, with its answer
  outcome,      \* what the invocation returned or threw
  \* ---- other operations, each idle outside its own specification ----
  second,       \* a second extraction from the same markup
  other,        \* a second invocation of getDimensionalFacts
  call,         \* one request to the tool handler (index.js)
  filt,         \* one call of filterFilings
  tbl           \* one invocation of buildFactTable

pureVars == <<ppc, markup, criteria, facts, contexts, matches>>
netVars == <<pc, args, loc, reqLog, outcome>>
auxVars == <<second, other, call, filt, tbl>>
vars == <<ppc, markup, criteria, facts, contexts, matches,
          pc, args, loc, reqLog, outcome,
          second, other, call, filt, tbl>>

-----------------------------------------------------------------------------
(* JavaScript values: numbers (integers here), NaN, strings, undefined.     *)

Num(n) == [k |-> "num", n |-> n, s |-> <<>>]
Str(s) == [k |-> "str", n |-> 0, s |-> s]
NaN == [k |-> "nan", n |-> 0, s |-> <<>>]
Undefined == [k |-> "undef", n |-> 0, s |-> <<>>]

\* typeof v === 'number' (NaN is of type number)
IsNumberType(v) == v.k \in {"num", "nan"}

\* JavaScript truthiness: 0, NaN, "" and undefined are falsy
Truthy(v) ==
  CASE v.k = "num" -> v.n # 0
    [] v.k = "str" -> v.s # <<>>
    [] OTHER -> FALSE

DigitChars == <<"0", "1", "2", "3", "4", "5", "6", "7", "8", "9">>

IsDigit(c) == \E d \in 1..10 : DigitChars[d] = c

DigitVal(c) == (CHOOSE d \in 1..10 : DigitChars[d] = c) - 1

RECURSIVE NatToChars(_)
NatToChars(n) ==
  IF n < 10 THEN <<DigitChars[n + 1]>>
  ELSE NatToChars(n \div 10) \o <<DigitChars[(n % 10) + 1]>>

\* Number.prototype.toString / String.prototype.toString
ToStr(v) ==
  CASE v.k = "num" -> IF v.n < 0 THEN <<"-">> \o NatToChars(-v.n) ELSE NatToChars(v.n)
    [] v.k = "nan" -> <<"N", "a", "N">>
    [] OTHER -> v.s

UpperChars == <<"A", "B", "C", "D", "E", "F", "G", "H", "I", "J", "K", "L", "M",
                "N", "O", "P", "Q", "R", "S", "T", "U", "V", "W", "X", "Y", "Z">>
LowerChars == <<"a", "b", "c", "d", "e", "f", "g", "h", "i", "j", "k", "l", "m",
                "n", "o", "p", "q", "r", "s", "t", "u", "v", "w", "x", "y", "z">>

LowerChar(c) ==
  IF \E i \in 1..26 : UpperChars[i] = c
  THEN LowerChars[CHOOSE i \in 1..26 : UpperChars[i] = c]
  ELSE c

\* String.prototype.toLowerCase
toLowerCase(s) == [i \in 1..Len(s) |-> LowerChar(s[i])]

\* String.prototype.includes
includes(s, sub) ==
  \E i \in 0..(Len(s) - Len(sub)) :
    \A j \in 1..Len(sub) : s[i + j] = sub[j]

\* String.prototype.endsWith
endsWith(s, suf) ==
  /\ Len(suf) <= Len(s)
  /\ \A j \in 1..Len(suf) : s[Len(s) - Len(suf) + j] = suf[j]

RECURSIVE TrimLeft(_)
TrimLeft(s) == IF s # <<>> /\ Head(s) = " " THEN TrimLeft(Tail(s)) ELSE s

RECURSIVE TrimRight(_)
TrimRight(s) ==
  IF s # <<>> /\ s[Len(s)] = " " THEN TrimRight(SubSeq(s, 1, Len(s) - 1)) ELSE s

\* String.prototype.trim
trim(s) == TrimRight(TrimLeft(s))

\* value.replace(/,/g, '')
StripCommas(s) == SelectSeq(s, LAMBDA c : c # ",")

RECURSIVE DigitPrefix(_)
DigitPrefix(s) ==
  IF s # <<>> /\ IsDigit(Head(s)) THEN <<Head(s)>> \o DigitPrefix(Tail(s)) ELSE <<>>

RECURSIVE DigitsToNat(_)
DigitsToNat(ds) ==
  IF ds = <<>> THEN 0
  ELSE 10 * DigitsToNat(SubSeq(ds, 1, Len(ds) - 1)) + DigitVal(ds[Len(ds)])

\* parseFloat / parseInt on the modelled alphabet (no decimal point, no
\* exponent): leading blanks are skipped, an optional sign is read, then the
\* longest run of digits; no digit at all gives NaN.
ParseLeadingNumber(s) ==
  LET t == TrimLeft(s)
      neg == t # <<>> /\ Head(t) = "-"
      u == IF neg THEN Tail(t) ELSE t
      ds == DigitPrefix(u)
  IN IF ds = <<>> THEN NaN
     ELSE Num(IF neg THEN -DigitsToNat(ds) ELSE DigitsToNat(ds))

parseFloat(v) == IF v.k = "str" THEN ParseLeadingNumber(v.s) ELSE NaN

parseInt(v) == IF v.k = "str" THEN ParseLeadingNumber(v.s) ELSE NaN

\* a * b on JavaScript numbers: NaN is contagious
Times(a, b) == IF a.k = "num" /\ b.k = "num" THEN Num(a.n * b.n) ELSE NaN

\* Math.pow(10, e) for the non-negative integer exponents of the model
Pow10(e) == IF e.k = "num" /\ e.n >= 0 THEN Num(10 ^ e.n) ELSE NaN

\* a || b
OrElse(a, b) == IF Truthy(a) THEN a ELSE b

-----------------------------------------------------------------------------
(* Annotation extractor (xbrl-parser.js).                                   *)
(*                                                                          *)
(* An element of the markup is [tag, attrs, text, kids]: attrs is the list  *)
(* of [n, v] attributes of the opening tag in document order, text the      *)
(* inner text, kids the child elements.  The fact patterns take the inner   *)
(* text up to the first '<' and then require the closing tag, so they       *)
(* match an element only when it has no child.                              *)

COLON == ":"

RECURSIVE IndexOfChar(_, _, _)
IndexOfChar(s, c, from) ==
  IF from > Len(s) THEN 0
  ELSE IF s[from] = c THEN from
  ELSE IndexOfChar(s, c, from + 1)

CountChar(s, c) == Cardinality({i \in 1..Len(s) : s[i] = c})

\* parts = name.split(':'); two parts are returned as they are, any other
\* number of parts gives ['default', name]
parseXbrlName(name) ==
  IF CountChar(name, COLON) = 1
  THEN LET i == IndexOfChar(name, COLON, 1)
       IN <<SubSeq(name, 1, i - 1), SubSeq(name, i + 1, Len(name))>>
  ELSE <<<<"d", "e", "f", "a", "u", "l", "t">>, name>>

\* mutant: unparsable text is not replaced by zero
parseNumericValue_NoDefault(value, scale) ==
  LET numValue == parseFloat(Str(StripCommas(value.s)))
  IN IF Truthy(scale)
     THEN Times(numValue, Pow10(parseInt(scale)))
     ELSE numValue

\* value and scale are JavaScript values: value a string, scale a string or
\* undefined
parseNumericValue(value, scale) ==
  LET numValue == OrElse(parseFloat(Str(StripCommas(value.s))), Num(0))
  IN IF Truthy(scale)
     THEN Times(numValue, Pow10(parseInt(scale)))
     ELSE numValue

\* positions of the attributes called n, in document order
AttrPositions(attrs, n) == {i \in 1..Len(attrs) : attrs[i].n = n}

SetMax(S) == CHOOSE m \in S : \A x \in S : x <= m

\* [^>]*name="([^"]*)"[^>]*contextRef="([^"]*)" : each [^>]* is greedy, so the
\* engine settles on the last name attribute that still has a contextRef
\* attribute behind it, and then on the last contextRef attribute.
NameCtxMatch(attrs) ==
  LET ctxs == AttrPositions(attrs, "contextRef")
      names == {i \in AttrPositions(attrs, "name") : \E j \in ctxs : j > i}
  IN IF names = {} THEN <<0, 0>>
     ELSE <<SetMax(names), SetMax(ctxs)>>

\* Where a greedy [^>]* that starts at attribute position `from` stops on the
\* engine's first attempt: at the closing '>' of the tag, behind the last
\* attribute.  Everything after it in the pattern can match empty, so the
\* attempt succeeds and the engine never backs off.
GreedyRunEnd(attrs, from) == Len(attrs) + 1

\* (?:attr="([^"]*)")? tried at attribute position pos
OptionalGroup(attrs, pos, n) ==
  IF pos <= Len(attrs) /\ attrs[pos].n = n THEN Str(attrs[pos].v) ELSE Undefined

AfterGroup(attrs, pos, n) ==
  IF pos <= Len(attrs) /\ attrs[pos].n = n THEN pos + 1 ELSE pos

\* the capture groups of nonFractionPattern on one element, or matched FALSE
nonFractionPattern(e) ==
  LET nc == NameCtxMatch(e.attrs)
      p3 == GreedyRunEnd(e.attrs, nc[2] + 1)
      p4 == GreedyRunEnd(e.attrs, AfterGroup(e.attrs, p3, "unitRef"))
      p5 == GreedyRunEnd(e.attrs, AfterGroup(e.attrs, p4, "decimals"))
  IN IF e.tag = "ix:nonFraction" /\ e.kids = <<>> /\ nc[1] # 0
     THEN [matched |-> TRUE,
           name |-> e.attrs[nc[1]].v,
           contextRef |-> e.attrs[nc[2]].v,
           unitRef |-> OptionalGroup(e.attrs, p3, "unitRef"),
           decimals |-> OptionalGroup(e.attrs, p4, "decimals"),
           scale |-> OptionalGroup(e.attrs, p5, "scale"),
           value |-> e.text]
     ELSE [matched |-> FALSE]

\* fractionPattern and nonNumericPattern: name, contextRef, inner text
SimplePattern(e, tag) ==
  LET nc == NameCtxMatch(e.attrs)
  IN IF e.tag = tag /\ e.kids = <<>> /\ nc[1] # 0
     THEN [matched |-> TRUE,
           name |-> e.attrs[nc[1]].v,
           contextRef |-> e.attrs[nc[2]].v,
           value |-> e.text]
     ELSE [matched |-> FALSE]

USD == <<"U", "S", "D">>
PURE == <<"p", "u", "r", "e">>

nonFractionFact(m) ==
  [namespace |-> parseXbrlName(m.name)[1],
   concept |-> parseXbrlName(m.name)[2],
   value |-> parseNumericValue(Str(m.value), m.scale),
   valueRaw |-> m.value,
   contextRef |-> m.contextRef,
   unitRef |-> OrElse(m.unitRef, Str(USD)),
   decimals |-> m.decimals,
   scale |-> m.scale,
   fullTag |-> m.name,
   factType |-> "nonFraction"]

fractionFact(m) ==
  [namespace |-> parseXbrlName(m.name)[1],
   concept |-> parseXbrlName(m.name)[2],
   value |-> OrElse(parseFloat(Str(m.value)), Str(m.value)),
   valueRaw |-> m.value,
   contextRef |-> m.contextRef,
   unitRef |-> Str(PURE),
   decimals |-> Undefined,
   scale |-> Undefined,
   fullTag |-> m.name,
   factType |-> "fraction"]

nonNumericFact(m) ==
  [namespace |-> parseXbrlName(m.name)[1],
   concept |-> parseXbrlName(m.name)[2],
   value |-> Str(trim(m.value)),
   valueRaw |-> m.value,
   contextRef |-> m.contextRef,
   unitRef |-> Undefined,
   decimals |-> Undefined,
   scale |-> Undefined,
   fullTag |-> m.name,
   factType |-> "nonNumeric"]

RECURSIVE NonFractionFacts(_)
NonFractionFacts(html) ==
  IF html = <<>> THEN <<>>
  ELSE LET m == nonFractionPattern(Head(html))
       IN (IF m.matched THEN <<nonFractionFact(m)>> ELSE <<>>)
          \o NonFractionFacts(Tail(html))

RECURSIVE FractionFacts(_)
FractionFacts(html) ==
  IF html = <<>> THEN <<>>
  ELSE LET m == SimplePattern(Head(html), "ix:fraction")
       IN (IF m.matched THEN <<fractionFact(m)>> ELSE <<>>)
          \o FractionFacts(Tail(html))

RECURSIVE NonNumericFacts(_)
NonNumericFacts(html) ==
  IF html = <<>> THEN <<>>
  ELSE LET m == SimplePattern(Head(html), "ix:nonNumeric")
       IN (IF m.matched THEN <<nonNumericFact(m)>> ELSE <<>>)
          \o NonNumericFacts(Tail(html))

\* mutant: one pass, every annotation where it stands in the document
RECURSIVE extractFactsFromIxbrl_DocumentOrder(_)
extractFactsFromIxbrl_DocumentOrder(htmlContent) ==
  IF htmlContent = <<>> THEN <<>>
  ELSE NonFractionFacts(<<Head(htmlContent)>>) \o FractionFacts(<<Head(htmlContent)>>)
         \o NonNumericFacts(<<Head(htmlContent)>>)
         \o extractFactsFromIxbrl_DocumentOrder(Tail(htmlContent))

\* mutant: the list is kept between calls (an array of the module, not of
\* the call)
NewFactList_Kept(left) == left

\* `const facts = []`: the list a call starts with, whatever an earlier call
\* left behind
NewFactList(left) == <<>>

\* three passes over the whole markup, appended to one list
extractFactsFromIxbrl(htmlContent) ==
  NonFractionFacts(htmlContent) \o FractionFacts(htmlContent)
    \o NonNumericFacts(htmlContent)


-----------------------------------------------------------------------------
(* Context resolver (xbrl-parser.js).  A context block is an element whose  *)
(* kids are the markers found in its content, in document order.            *)

\* the first kid with this tag and no attribute, as the non-global
\* contextContent.match(/<xbrli:tag>([^<]*)<\/xbrli:tag>/) finds it
FirstMarker(content, tag) ==
  LET hits == {i \in 1..Len(content) :
                 content[i].tag = tag /\ content[i].attrs = <<>>}
  IN IF hits = {} THEN Undefined
     ELSE Str(content[CHOOSE i \in hits : \A j \in hits : i <= j].text)

\* mutant: a start date alone makes a duration
extractPeriodFromContext_StartOnly(contextContent) ==
  LET instantMatch == FirstMarker(contextContent, "xbrli:instant")
      startDateMatch == FirstMarker(contextContent, "xbrli:startDate")
      endDateMatch == FirstMarker(contextContent, "xbrli:endDate")
  IN IF instantMatch.k = "str"
     THEN [type |-> "instant", instant |-> instantMatch,
           startDate |-> Undefined, endDate |-> Undefined]
     ELSE IF startDateMatch.k = "str"
     THEN [type |-> "duration", instant |-> Undefined,
           startDate |-> startDateMatch, endDate |-> endDateMatch]
     ELSE [type |-> "unknown", instant |-> Undefined,
           startDate |-> Undefined, endDate |-> Undefined]

extractPeriodFromContext(contextContent) ==
  LET instantMatch == FirstMarker(contextContent, "xbrli:instant")
      startDateMatch == FirstMarker(contextContent, "xbrli:startDate")
      endDateMatch == FirstMarker(contextContent, "xbrli:endDate")
  IN IF instantMatch.k = "str"
     THEN [type |-> "instant", instant |-> instantMatch,
           startDate |-> Undefined, endDate |-> Undefined]
     ELSE IF startDateMatch.k = "str" /\ endDateMatch.k = "str"
     THEN [type |-> "duration", instant |-> Undefined,
           startDate |-> startDateMatch, endDate |-> endDateMatch]
     ELSE [type |-> "unknown", instant |-> Undefined,
           startDate |-> Undefined, endDate |-> Undefined]

\* /<xbrli:identifier[^>]*>([^<]*)<\/xbrli:identifier>/ : the first one
extractEntityFromContext(contextContent) ==
  LET hits == {i \in 1..Len(contextContent) :
                 contextContent[i].tag = "xbrli:identifier"}
  IN [identifier |->
        IF hits = {} THEN Undefined
        ELSE Str(contextContent[CHOOSE i \in hits : \A j \in hits : i <= j].text)]

EmptyObject == [x \in {} |-> Undefined]

\* obj[key] = value on a plain object
SetKey(obj, key, value) ==
  [x \in (DOMAIN obj) \cup {key} |-> IF x = key THEN value ELSE obj[x]]

\* every explicitMember marker with a dimension attribute, a later one
\* overwriting an earlier one of the same axis
RECURSIVE DimensionsFrom(_, _)
DimensionsFrom(content, dimensions) ==
  IF content = <<>> THEN dimensions
  ELSE LET e == Head(content)
           ds == AttrPositions(e.attrs, "dimension")
       IN DimensionsFrom(Tail(content),
            IF e.tag = "xbrldi:explicitMember" /\ ds # {}
            THEN SetKey(dimensions, e.attrs[SetMax(ds)].v, e.text)
            ELSE dimensions)

extractDimensionsFromContext(contextContent) ==
  DimensionsFrom(contextContent, EmptyObject)

ContextRecord(contextId, contextContent) ==
  [kind |-> "record",
   id |-> contextId,
   period |-> extractPeriodFromContext(contextContent),
   entity |-> extractEntityFromContext(contextContent),
   dimensions |-> extractDimensionsFromContext(contextContent)]

\* one while-loop of extractContextsFromIxbrl: every block of this tag that
\* has an id attribute (the greedy [^>]* settles on the last one) is stored
\* under its id
RECURSIVE ContextPass(_, _, _)
ContextPass(html, tag, ctxs) ==
  IF html = <<>> THEN ctxs
  ELSE LET e == Head(html)
           ids == AttrPositions(e.attrs, "id")
       IN ContextPass(Tail(html), tag,
            IF e.tag = tag /\ ids # {}
            THEN SetKey(ctxs, e.attrs[SetMax(ids)].v,
                        ContextRecord(e.attrs[SetMax(ids)].v, e.kids))
            ELSE ctxs)

\* `const contexts = {}`: the map a call starts with, whatever an earlier
\* call left behind
NewContextMap(left) == EmptyObject

\* mutant: the two passes in the other order
extractContextsFromIxbrl_IxLast(htmlContent) ==
  ContextPass(htmlContent, "ix:context",
              ContextPass(htmlContent, "xbrli:context", EmptyObject))

\* the ix:context pass runs first, the xbrli:context pass second, both into
\* the same object
extractContextsFromIxbrl(htmlContent) ==
  ContextPass(htmlContent, "xbrli:context",
              ContextPass(htmlContent, "ix:context", EmptyObject))

-----------------------------------------------------------------------------
(* Fact matcher (xbrl-parser.js).                                           *)

\* property names every plain object inherits from Object.prototype
ObjectPrototypeKeys ==
  {<<"c", "o", "n", "s", "t", "r", "u", "c", "t", "o", "r">>,
   <<"t", "o", "S", "t", "r", "i", "n", "g">>,
   <<"v", "a", "l", "u", "e", "O", "f">>}

InheritedFunction ==
  [kind |-> "inherited", id |-> <<>>,
   period |-> [type |-> "absent", instant |-> Undefined,
               startDate |-> Undefined, endDate |-> Undefined],
   entity |-> [identifier |-> Undefined],
   dimensions |-> EmptyObject]

NoContext ==
  [kind |-> "undefined", id |-> <<>>,
   period |-> [type |-> "absent", instant |-> Undefined,
               startDate |-> Undefined, endDate |-> Undefined],
   entity |-> [identifier |-> Undefined],
   dimensions |-> EmptyObject]

\* contexts[fact.contextRef]: an own key, else an inherited property, else
\* undefined
GetContext(ctxs, key) ==
  IF key \in DOMAIN ctxs THEN ctxs[key]
  ELSE IF key \in ObjectPrototypeKeys THEN InheritedFunction
  ELSE NoContext

\* a < b and a > b are false as soon as one side is undefined or NaN
Less(a, b) == a.k = "num" /\ b.k = "num" /\ a.n < b.n
Greater(a, b) == a.k = "num" /\ b.k = "num" /\ a.n > b.n

\* mutant: without a concept in the criteria every fact is skipped
ConceptSkips_AbsentExcludes(fact, crit) ==
  \/ ~Truthy(crit.concept)
  \/ ~includes(toLowerCase(fact.concept), toLowerCase(crit.concept.s))

ConceptSkips(fact, crit) ==
  /\ Truthy(crit.concept)
  /\ ~includes(toLowerCase(fact.concept), toLowerCase(crit.concept.s))

ValueSkips(fact, crit) ==
  /\ Truthy(crit.value)
  /\ ToStr(fact.value) # ToStr(crit.value)

RangeNumValue(fact) ==
  IF IsNumberType(fact.value) THEN fact.value ELSE parseFloat(fact.value)

\* mutant: the upper bound is never compared
RangeSkips_NoUpperBound(fact, crit) ==
  /\ crit.valueRange.has
  /\ LET numValue == RangeNumValue(fact)
     IN \/ numValue.k = "nan"
        \/ Less(numValue, crit.valueRange.min)

RangeSkips(fact, crit) ==
  /\ crit.valueRange.has
  /\ LET numValue == RangeNumValue(fact)
     IN \/ numValue.k = "nan"
        \/ Less(numValue, crit.valueRange.min)
        \/ Greater(numValue, crit.valueRange.max)

\* mutant: one matching axis is enough
DimensionSkips_AnyAxis(context, crit) ==
  /\ crit.dimensions.has
  /\ DOMAIN crit.dimensions.map # {}
  /\ \A dimName \in DOMAIN crit.dimensions.map :
       \/ dimName \notin DOMAIN context.dimensions
       \/ context.dimensions[dimName] = <<>>
       \/ ~includes(toLowerCase(context.dimensions[dimName]),
                    toLowerCase(crit.dimensions.map[dimName]))

\* the loop over Object.entries(criteria.dimensions) on a context record
DimensionSkips(context, crit) ==
  /\ crit.dimensions.has
  /\ \E dimName \in DOMAIN crit.dimensions.map :
       \/ dimName \notin DOMAIN context.dimensions
       \/ context.dimensions[dimName] = <<>>
       \/ ~includes(toLowerCase(context.dimensions[dimName]),
                    toLowerCase(crit.dimensions.map[dimName]))

\* context.dimensions[dimName] on an inherited function: dimensions is
\* undefined there, and reading a property of undefined throws
DimensionThrows(context, crit) ==
  /\ crit.dimensions.has
  /\ DOMAIN crit.dimensions.map # {}
  /\ context.kind = "inherited"

MatchedFact(fact, context) ==
  [context |-> context,
   period |-> context.period,
   periodType |-> context.period.type,
   periodStart |-> OrElse(context.period.startDate, context.period.instant),
   periodEnd |-> OrElse(context.period.endDate, context.period.instant),
   dimensions |-> context.dimensions] @@ fact

\* "skip" for a continue, "throw" for the TypeError, "push" otherwise
FactVerdict(fact, ctxs, crit) ==
  LET context == GetContext(ctxs, fact.contextRef)
  IN IF ConceptSkips(fact, crit) THEN "skip"
     ELSE IF ValueSkips(fact, crit) THEN "skip"
     ELSE IF RangeSkips(fact, crit) THEN "skip"
     ELSE IF context.kind = "undefined" THEN "skip"
     ELSE IF DimensionThrows(context, crit) THEN "throw"
     ELSE IF DimensionSkips(context, crit) THEN "skip"
     ELSE "push"

RECURSIVE FindLoop(_, _, _, _)
FindLoop(fs, ctxs, crit, matchingFacts) ==
  IF fs = <<>> THEN [threw |-> FALSE, list |-> matchingFacts]
  ELSE LET v == FactVerdict(Head(fs), ctxs, crit)
       IN IF v = "throw" THEN [threw |-> TRUE, list |-> <<>>]
          ELSE FindLoop(Tail(fs), ctxs, crit,
                 IF v = "push"
                 THEN Append(matchingFacts,
                             MatchedFact(Head(fs), GetContext(ctxs, Head(fs).contextRef)))
                 ELSE matchingFacts)

findDimensionalFacts(xbrlData, crit) ==
  FindLoop(xbrlData.facts, xbrlData.contexts, crit, <<>>)

\* the number of annotations the loop body ran on: all of them, or those up
\* to the one that threw
Visited(fs, ctxs, crit) ==
  LET throws == {i \in 1..Len(fs) : FactVerdict(fs[i], ctxs, crit) = "throw"}
  IN IF throws = {} THEN Len(fs) ELSE CHOOSE i \in throws : \A j \in throws : i <= j

\* mutant: a match is extended in place (Object.assign(fact, {...})) and the
\* extended annotation is pushed
AnnotationAfter_EnrichedInPlace(fact, ctxs, crit) ==
  IF FactVerdict(fact, ctxs, crit) = "push"
  THEN MatchedFact(fact, GetContext(ctxs, fact.contextRef))
  ELSE fact

\* an annotation after the loop body ran on it: the body only reads fact, and
\* what it pushes is a new object built by spreading it ({...fact, context, ...})
AnnotationAfter(fact, ctxs, crit) == fact

\* the arguments as the caller sees them after the call: nothing is assigned
\* to contexts, to a context record or to criteria
InputsAfter(xbrlData, crit) ==
  [facts |-> [i \in 1..Len(xbrlData.facts) |->
                IF i <= Visited(xbrlData.facts, xbrlData.contexts, crit)
                THEN AnnotationAfter(xbrlData.facts[i], xbrlData.contexts, crit)
                ELSE xbrlData.facts[i]],
   contexts |-> xbrlData.contexts,
   criteria |-> crit]


-----------------------------------------------------------------------------
(* Inputs of the pure pipeline: documents built from a pool of annotation   *)
(* elements followed by a context section, and a pool of search criteria.   *)

MaxFacts == 2

Attr(n, v) == [n |-> n, v |-> v]
Elem(tag, attrs, text, kids) == [tag |-> tag, attrs |-> attrs, text |-> text, kids |-> kids]
Leaf(tag, attrs, text) == Elem(tag, attrs, text, <<>>)

gRev == <<"g", ":", "R", "e", "v">>
Tax == <<"T", "a", "x">>
c1 == <<"c", "1">>
c2 == <<"c", "2">>
GeoAxis == <<"s", ":", "G", "e", "o">>
NonUsMember == <<"g", ":", "N", "o", "n", "U", "s">>
Day1 == <<"d", "1">>
Day2 == <<"d", "2">>
SegAxis == <<"s", ":", "S", "e", "g">>
PharmaMember == <<"g", ":", "P", "h", "a", "r", "m", "a">>
MedMember == <<"g", ":", "M", "e", "d">>
VALUE_OF == <<"v", "a", "l", "u", "e", "O", "f">>
ABC == <<"a", ":", "b", ":", "c">>

AnnotationPool ==
  { \* Scenario A: name, contextRef, scale "6", text "638"
    Leaf("ix:nonFraction",
         <<Attr("name", gRev), Attr("contextRef", c1), Attr("unitRef", <<"u">>),
           Attr("scale", <<"6">>)>>,
         <<"6", "3", "8">>),
    \* thousands separator, no scale
    Leaf("ix:nonFraction",
         <<Attr("name", gRev), Attr("contextRef", c1)>>,
         <<"1", ",", "2", "0", "0">>),
    \* unparsable text
    Leaf("ix:nonFraction",
         <<Attr("name", Tax), Attr("contextRef", c1)>>,
         <<"x">>),
    \* a context reference that no context block declares
    Leaf("ix:nonFraction",
         <<Attr("name", gRev), Attr("contextRef", c2)>>,
         <<"6", "3", "8">>),
    \* contextRef before name: the pattern wants name first
    Leaf("ix:nonFraction",
         <<Attr("contextRef", c1), Attr("name", gRev), Attr("scale", <<"3">>)>>,
         <<"7">>),
    \* inner markup around the number
    Elem("ix:nonFraction",
         <<Attr("name", gRev), Attr("contextRef", c1)>>,
         <<>>, <<Leaf("span", <<>>, <<"9">>)>>),
    Leaf("ix:fraction",
         <<Attr("name", Tax), Attr("contextRef", c1)>>,
         <<"0">>),
    Leaf("ix:fraction",
         <<Attr("name", Tax), Attr("contextRef", c1)>>,
         <<"6", "5", "0">>),
    Leaf("ix:nonNumeric",
         <<Attr("name", gRev), Attr("contextRef", c1)>>,
         <<" ", "6", "5", "0", " ">>),
    Leaf("ix:nonNumeric",
         <<Attr("name", Tax), Attr("contextRef", c1)>>,
         <<>>),
    \* a context reference that is the name of a method every object has
    Leaf("ix:nonFraction",
         <<Attr("name", Tax), Attr("contextRef", VALUE_OF)>>,
         <<"5">>),
    \* a name with two separators
    Leaf("ix:nonNumeric",
         <<Attr("name", ABC), Attr("contextRef", c1)>>,
         <<"n">>),
    \* ratios: a thousands separator, unparsable text
    Leaf("ix:fraction",
         <<Attr("name", Tax), Attr("contextRef", c1)>>,
         <<"1", ",", "2", "0", "0">>),
    Leaf("ix:fraction",
         <<Attr("name", gRev), Attr("contextRef", c1)>>,
         <<"x">>),
    \* a scale that is not a number
    Leaf("ix:nonFraction",
         <<Attr("name", Tax), Attr("contextRef", c1), Attr("scale", <<"k">>)>>,
         <<"7">>) }

InstantGeo ==
  <<Leaf("xbrli:identifier", <<Attr("scheme", <<"s">>)>>, <<"i", "d">>),
    Leaf("xbrldi:explicitMember", <<Attr("dimension", GeoAxis)>>, NonUsMember),
    Leaf("xbrli:instant", <<>>, Day1)>>

DurationPlain ==
  <<Leaf("xbrli:startDate", <<>>, Day1), Leaf("xbrli:endDate", <<>>, Day2)>>

\* two axes, both members as the two-axis criterion wants them
GeoPharma ==
  <<Leaf("xbrldi:explicitMember", <<Attr("dimension", GeoAxis)>>, NonUsMember),
    Leaf("xbrldi:explicitMember", <<Attr("dimension", SegAxis)>>, PharmaMember),
    Leaf("xbrli:instant", <<>>, Day1)>>

\* two axes, the second member another one
GeoMed ==
  <<Leaf("xbrldi:explicitMember", <<Attr("dimension", GeoAxis)>>, NonUsMember),
    Leaf("xbrldi:explicitMember", <<Attr("dimension", SegAxis)>>, MedMember),
    Leaf("xbrli:instant", <<>>, Day1)>>

ContextSections ==
  { <<>>,
    <<Elem("ix:context", <<Attr("id", c1)>>, <<>>, InstantGeo)>>,
    <<Elem("xbrli:context", <<Attr("id", c1)>>, <<>>, DurationPlain)>>,
    <<Elem("xbrli:context", <<Attr("id", c1)>>, <<>>, DurationPlain),
      Elem("ix:context", <<Attr("id", c1)>>, <<>>, InstantGeo)>>,
    <<Elem("ix:context", <<Attr("id", c1)>>, <<>>, GeoPharma)>>,
    <<Elem("ix:context", <<Attr("id", c1)>>, <<>>, GeoMed)>> }

SeqsUpTo(S, n) == UNION {[1..k -> S] : k \in 0..n}

Markups ==
  {fs \o cs : fs \in SeqsUpTo(AnnotationPool, MaxFacts), cs \in ContextSections}

NoRange == [has |-> FALSE, min |-> Undefined, max |-> Undefined]
Range(lo, hi) == [has |-> TRUE, min |-> Num(lo), max |-> Num(hi)]
NoDimensions == [has |-> FALSE, map |-> EmptyObject]

Criteria(concept, value, valueRange, dimensions) ==
  [concept |-> concept, value |-> value, valueRange |-> valueRange,
   dimensions |-> dimensions]

CriteriaPool ==
  { Criteria(Undefined, Undefined, NoRange, NoDimensions),
    Criteria(Str(<<"r", "e", "v">>), Undefined, NoRange, NoDimensions),
    \* Scenario A
    Criteria(Str(<<"r", "e", "v">>), Undefined, Range(600000000, 700000000), NoDimensions),
    Criteria(Undefined, Undefined, Range(600, 700), NoDimensions),
    Criteria(Undefined, Undefined, Range(638, 1200), NoDimensions),
    Criteria(Undefined, Num(638), NoRange, NoDimensions),
    Criteria(Undefined, Str(<<"6", "5", "0">>), NoRange, NoDimensions),
    Criteria(Undefined, Num(0), NoRange, NoDimensions),
    Criteria(Undefined, Str(<<>>), NoRange, NoDimensions),
    Criteria(Undefined, Undefined, NoRange,
             [has |-> TRUE, map |-> SetKey(EmptyObject, GeoAxis, <<"n", "o", "n", "u", "s">>)]),
    \* two axes, the second criterion string in another case than the member
    Criteria(Undefined, Undefined, NoRange,
             [has |-> TRUE,
              map |-> SetKey(SetKey(EmptyObject, GeoAxis, <<"n", "o", "n", "u", "s">>),
                             SegAxis, <<"P", "H", "A", "R", "M", "A">>)]),
    \* a dimensions object that names no axis
    Criteria(Undefined, Undefined, NoRange, [has |-> TRUE, map |-> EmptyObject]) }

NoCriteria == Criteria(Undefined, Undefined, NoRange, NoDimensions)

-----------------------------------------------------------------------------
(* The pure pipeline as a state machine: parseXbrlInstance's two            *)
(* extractions over one markup, then findDimensionalFacts.                  *)

SecondIdle == second = <<>>
OtherIdle == other = <<>>
CallIdle == call = <<>>
FiltIdle == filt = <<>>
TblIdle == tbl = <<>>

AuxIdle == SecondIdle /\ OtherIdle /\ CallIdle /\ FiltIdle /\ TblIdle

NetIdle ==
  /\ pc = "idle"
  /\ args = <<>>
  /\ loc = <<>>
  /\ reqLog = <<>>
  /\ outcome = <<>>

PureInit ==
  /\ ppc = "input"
  /\ markup \in Markups
  /\ criteria = NoCriteria
  /\ facts = <<>>
  /\ contexts = EmptyObject
  /\ matches = [threw |-> FALSE, list |-> <<>>]
  /\ NetIdle
  /\ AuxIdle

\* xbrl-parser.js, parseXbrlInstance: facts and contexts of the same markup
Parse ==
  /\ ppc = "input"
  /\ facts' = extractFactsFromIxbrl(markup)
  /\ contexts' = extractContextsFromIxbrl(markup)
  /\ ppc' = "parsed"
  /\ UNCHANGED <<markup, criteria, matches, netVars, auxVars>>

Match ==
  /\ ppc = "parsed"
  /\ \E c \in CriteriaPool :
       LET xbrlData == [facts |-> facts, contexts |-> contexts]
           after == InputsAfter(xbrlData, c)
       IN /\ matches' = findDimensionalFacts(xbrlData, c)
          /\ facts' = after.facts
          /\ contexts' = after.contexts
          /\ criteria' = after.criteria
  /\ ppc' = "matched"
  /\ UNCHANGED <<markup, netVars, auxVars>>

PureNext == Parse \/ Match

PureSpec == PureInit /\ [][PureNext]_vars

\* both extractors called a second time on the same markup.  Their patterns
\* are regex literals of the function body, so each call has new pattern
\* objects (lastIndex 0); what a call starts from is its own empty list and
\* its own empty map
ParseAgain ==
  /\ ppc = "parsed"
  /\ second = <<>>
  /\ second' =
       [facts |-> NewFactList(facts) \o extractFactsFromIxbrl(markup),
        contexts |-> ContextPass(markup, "xbrli:context",
                       ContextPass(markup, "ix:context", NewContextMap(contexts)))]
  /\ UNCHANGED <<pureVars, netVars, other, call, filt, tbl>>

RepeatNext == Parse \/ ParseAgain

RepeatSpec == PureInit /\ [][RepeatNext]_vars

C29_ThrewWitness ==
  /\ ppc = "matched"
  /\ matches.threw
  /\ Len(facts) = 2


-----------------------------------------------------------------------------
(* Claims about the extractor and the matcher, checked under PureSpec.      *)

\* a numeric-fraction annotation the pattern's mandatory part accepts: no
\* child markup, a name attribute and a contextRef attribute behind it
IsNonFractionAnnotation(e) ==
  /\ e.tag = "ix:nonFraction"
  /\ e.kids = <<>>
  /\ \E i, j \in 1..Len(e.attrs) :
       i < j /\ e.attrs[i].n = "name" /\ e.attrs[j].n = "contextRef"

ScaleAttr(e) == e.attrs[CHOOSE i \in 1..Len(e.attrs) : e.attrs[i].n = "scale"].v

\* strip(raw) x 10^s, with unparsable text read as zero
ScaledValue(text, s) ==
  LET raw == ParseLeadingNumber(StripCommas(text))
      e == ParseLeadingNumber(s)
  IN IF e.k # "num" THEN NaN
     ELSE Num((IF raw.k = "num" THEN raw.n ELSE 0) * 10 ^ e.n)

\* C8: every ix:nonFraction annotation of the markup that carries a scale
\* attribute s yields a fact whose decoded value is its inner text, thousands
\* separators stripped, parsed, times 10^s ("638" with scale "6" is 638000000).
C8_ScaleApplied ==
  ppc # "input" =>
    \A i \in 1..Len(markup) :
      (IsNonFractionAnnotation(markup[i]) /\ AttrPositions(markup[i].attrs, "scale") # {})
        => \E j \in 1..Len(facts) :
             /\ facts[j].factType = "nonFraction"
             /\ facts[j].valueRaw = markup[i].text
             /\ facts[j].value = ScaledValue(markup[i].text, ScaleAttr(markup[i]))

\* C9 as claimed: under a valueRange criterion every returned fact has a
\* decoded value of numeric kind lying in [min, max]; a text value never
\* matches.
C9_RangeOnlyNumeric ==
  (ppc = "matched" /\ criteria.valueRange.has) =>
    \A i \in 1..Len(matches.list) :
      LET v == matches.list[i].value
      IN /\ v.k = "num"
         /\ criteria.valueRange.min.n <= v.n
         /\ v.n <= criteria.valueRange.max.n

\* the number a range criterion is compared with: the decoded value when it
\* is a number, else what the start of its text reads as
ComparedNumber(v) == IF v.k = "str" THEN ParseLeadingNumber(v.s) ELSE v

\* C9 as amended: under a valueRange criterion every returned fact has a
\* compared number (its decoded value when numeric, else the number read from
\* the start of its text) that is not NaN and lies in [min, max], both bounds
\* inclusive.
C9_RangeOnParsedNumber ==
  (ppc = "matched" /\ criteria.valueRange.has) =>
    \A i \in 1..Len(matches.list) :
      LET n == ComparedNumber(matches.list[i].value)
      IN /\ n.k = "num"
         /\ criteria.valueRange.min.n <= n.n
         /\ n.n <= criteria.valueRange.max.n

\* C9 witness: a range search returned a numeric fact sitting exactly on a
\* bound together with a free-text fact whose text reads as a number
C9_Witness ==
  /\ ppc = "matched"
  /\ criteria.valueRange.has
  /\ \E i \in 1..Len(matches.list) :
       /\ matches.list[i].factType = "nonFraction"
       /\ matches.list[i].value = criteria.valueRange.max
  /\ \E i \in 1..Len(matches.list) :
       matches.list[i].factType = "nonNumeric"

\* C10: whenever criteria carries a value field (0 and "" included), every
\* returned fact's decoded value has the same string form as criteria.value.
C10_ExactValue ==
  (ppc = "matched" /\ criteria.value.k # "undef") =>
    \A i \in 1..Len(matches.list) :
      ToStr(matches.list[i].value) = ToStr(criteria.value)

\* sub occurs in s when letter case is ignored
ContainsIgnoreCase(s, sub) ==
  \E k \in 0..(Len(s) - Len(sub)) :
    \A j \in 1..Len(sub) : LowerChar(s[k + j]) = LowerChar(sub[j])

\* the fact's context maps every axis the criterion names to a member that
\* contains the criterion string
AxesMatch(fact, ctxs, crit) ==
  \A axis \in DOMAIN crit.dimensions.map :
    /\ fact.contextRef \in DOMAIN ctxs
    /\ axis \in DOMAIN ctxs[fact.contextRef].dimensions
    /\ ContainsIgnoreCase(ctxs[fact.contextRef].dimensions[axis],
                          crit.dimensions.map[axis])

\* C11: under a dimensions criterion every returned fact's context maps every
\* axis the criterion names to a member containing the criterion string,
\* letter case ignored; a context lacking a named axis excludes the fact, and
\* with two axes named both must match.
C11_DimensionsConjunctive ==
  (ppc = "matched" /\ criteria.dimensions.has) =>
    \A i \in 1..Len(matches.list) : AxesMatch(matches.list[i], contexts, criteria)

\* C11 witness: a criterion with two axes, its strings in another letter case
\* than the members, returned a fact
C11_Witness ==
  /\ ppc = "matched"
  /\ criteria.dimensions.has
  /\ Cardinality(DOMAIN criteria.dimensions.map) = 2
  /\ matches.list # <<>>

\* C12: a fact whose contextRef is not a key of the context map is never in
\* the output of findDimensionalFacts, and findDimensionalFacts raises no
\* error.
C12_UnknownContextDropped ==
  ppc = "matched" =>
    /\ ~matches.threw
    /\ \A i \in 1..Len(matches.list) : matches.list[i].contextRef \in DOMAIN contexts

\* the attributes of an annotation, as extractFactsFromIxbrl writes them
FactKeys ==
  {"namespace", "concept", "value", "valueRaw", "contextRef", "unitRef",
   "decimals", "scale", "fullTag", "factType"}

\* the annotation part of an output record
Strip(r) == [k \in FactKeys |-> r[k]]

StripAll(rs) == [i \in 1..Len(rs) |-> Strip(rs[i])]

\* a can be obtained from b by deleting elements
RECURSIVE IsSubsequence(_, _)
IsSubsequence(a, b) ==
  \/ a = <<>>
  \/ /\ b # <<>>
     /\ IF Head(a) = Head(b)
        THEN IsSubsequence(Tail(a), Tail(b))
        ELSE IsSubsequence(a, Tail(b))

\* C13: the output of findDimensionalFacts is a subsequence of the input
\* annotation list, and each output record carries its annotation's attributes
\* unchanged plus the period and the dimension mapping of the context that its
\* contextRef names.
C13_EnrichedSubsequence ==
  ppc = "matched" =>
    /\ IsSubsequence(StripAll(matches.list), facts)
    /\ \A i \in 1..Len(matches.list) :
         LET r == matches.list[i]
         IN /\ r.contextRef \in DOMAIN contexts
            /\ r.period = contexts[r.contextRef].period
            /\ r.dimensions = contexts[r.contextRef].dimensions

\* a fact passes every check the criteria carry
PassesPresentChecks(fact, ctxs, crit) ==
  /\ crit.concept.k # "undef" => ContainsIgnoreCase(fact.concept, crit.concept.s)
  /\ crit.value.k # "undef" => ToStr(fact.value) = ToStr(crit.value)
  /\ crit.valueRange.has =>
       LET n == ComparedNumber(fact.value)
       IN n.k = "num" /\ crit.valueRange.min.n <= n.n /\ n.n <= crit.valueRange.max.n
  /\ crit.dimensions.has => AxesMatch(fact, ctxs, crit)

Resolves(fact) == fact.contextRef \in DOMAIN contexts

\* C14: with criteria that carry no check, the call returns one record for
\* every annotation whose contextRef resolves, in order; with any criteria, an
\* annotation that resolves and passes every check that is present is
\* returned, so a check that is absent excludes nothing.
C14_AbsentCheckPasses ==
  (ppc = "matched" /\ ~matches.threw) =>
    /\ criteria = NoCriteria =>
         SelectSeq(facts, Resolves) = SelectSeq(StripAll(matches.list), Resolves)
    /\ IsSubsequence(
         SelectSeq(facts, LAMBDA f : Resolves(f) /\ PassesPresentChecks(f, contexts, criteria)),
         StripAll(matches.list))

\* C14 witness: empty criteria returned some annotations and dropped one whose
\* context is not declared
C14_Witness ==
  /\ ppc = "matched"
  /\ criteria = NoCriteria
  /\ matches.list # <<>>
  /\ \E i \in 1..Len(facts) : facts[i].contextRef = c2
  /\ Len(matches.list) < Len(facts)


\* an annotation of this tag that its pattern accepts: no child markup, a
\* name attribute and a contextRef attribute behind it
IsAnnotationOf(e, tag) ==
  /\ e.tag = tag
  /\ e.kids = <<>>
  /\ \E i, j \in 1..Len(e.attrs) :
       i < j /\ e.attrs[i].n = "name" /\ e.attrs[j].n = "contextRef"

AnnotationsOf(tag) == SelectSeq(markup, LAMBDA e : IsAnnotationOf(e, tag))

\* the facts at positions from+1 .. from+Len(es) are the facts of these
\* annotations, one each, in this order, tagged with this kind
FactsAre(from, es, kind) ==
  \A k \in 1..Len(es) :
    /\ facts[from + k].factType = kind
    /\ facts[from + k].valueRaw = es[k].text
    /\ \E i \in 1..Len(es[k].attrs) :
         es[k].attrs[i].n = "name" /\ es[k].attrs[i].v = facts[from + k].fullTag

\* C17: the fact list is the facts of the numeric-fraction annotations in
\* document order, then those of the ratio-fraction annotations in document
\* order, then those of the free-text annotations in document order; one fact
\* per annotation, each tagged with the kind of its pattern.
C17_ThreePasses ==
  ppc # "input" =>
    LET nf == AnnotationsOf("ix:nonFraction")
        fr == AnnotationsOf("ix:fraction")
        nn == AnnotationsOf("ix:nonNumeric")
    IN /\ Len(facts) = Len(nf) + Len(fr) + Len(nn)
       /\ FactsAre(0, nf, "nonFraction")
       /\ FactsAre(Len(nf), fr, "fraction")
       /\ FactsAre(Len(nf) + Len(fr), nn, "nonNumeric")

\* C17 witness: a free-text annotation stands in the document before a
\* numeric-fraction annotation, and both became facts
C17_Witness ==
  /\ ppc = "parsed"
  /\ Len(facts) = 2
  /\ IsAnnotationOf(markup[1], "ix:nonNumeric")
  /\ IsAnnotationOf(markup[2], "ix:nonFraction")

\* the decoding rule of numeric kinds without a scale: separators stripped,
\* parsed, zero when the text does not parse
Unscaled(text) ==
  LET n == ParseLeadingNumber(StripCommas(text))
  IN IF n.k = "num" THEN n ELSE Num(0)

\* C18: the decoded value of every ratio-fraction fact is its inner text with
\* thousands separators stripped, parsed as a number, 0 when unparsable: it is
\* always a number.
C18_FractionDecoded ==
  ppc # "input" =>
    \A j \in 1..Len(facts) :
      facts[j].factType = "fraction" =>
        /\ facts[j].value.k = "num"
        /\ facts[j].value = Unscaled(facts[j].valueRaw)

\* C19: the fact of a numeric-fraction annotation without a scale attribute
\* has as decoded value its inner text, thousands separators removed, parsed,
\* 0 when the text does not parse; no numeric-fraction fact has value NaN.
C19_UnscaledDecoded ==
  ppc # "input" =>
    LET nf == AnnotationsOf("ix:nonFraction")
    IN /\ \A k \in 1..Len(nf) :
            AttrPositions(nf[k].attrs, "scale") = {} =>
              /\ facts[k].valueRaw = nf[k].text
              /\ facts[k].value = Unscaled(nf[k].text)
       /\ \A j \in 1..Len(facts) :
            facts[j].factType = "nonFraction" => facts[j].value.k = "num"

\* C19 witness: annotations without scale, one with unparsable text, one with
\* a thousands separator, were decoded
C19_Witness ==
  /\ ppc = "parsed"
  /\ \E j \in 1..Len(facts) :
       /\ facts[j].factType = "nonFraction"
       /\ facts[j].valueRaw = <<"x">>
       /\ facts[j].value = Num(0)
  /\ \E j \in 1..Len(facts) :
       /\ facts[j].factType = "nonFraction"
       /\ facts[j].valueRaw = <<"1", ",", "2", "0", "0">>
       /\ facts[j].value = Num(1200)

\* C20: a fact's namespace is 'default' and its concept the whole name
\* exactly when the name holds no ':'; a name with a separator gives the
\* prefix before the separator as namespace and the rest as concept.
C20_SplitAtSeparator ==
  ppc # "input" =>
    \A j \in 1..Len(facts) :
      LET name == facts[j].fullTag
          i == IndexOfChar(name, COLON, 1)
      IN IF i = 0
         THEN /\ facts[j].namespace = <<"d", "e", "f", "a", "u", "l", "t">>
              /\ facts[j].concept = name
         ELSE /\ facts[j].namespace = SubSeq(name, 1, i - 1)
              /\ facts[j].concept = SubSeq(name, i + 1, Len(name))


-----------------------------------------------------------------------------
(* The context resolver on its own: markups made of context blocks only.    *)

MaxBlocks == 2

OnlyStart == <<Leaf("xbrli:startDate", <<>>, Day1)>>
OnlyEnd == <<Leaf("xbrli:endDate", <<>>, Day2)>>
InstantAndDuration ==
  <<Leaf("xbrli:startDate", <<>>, Day1), Leaf("xbrli:endDate", <<>>, Day2),
    Leaf("xbrli:instant", <<>>, Day2)>>
TwoInstants == <<Leaf("xbrli:instant", <<>>, Day2), Leaf("xbrli:instant", <<>>, Day1)>>
NoMarkers == <<Leaf("xbrli:identifier", <<Attr("scheme", <<"s">>)>>, <<"i", "d">>)>>

ContextBlockPool ==
  { Elem("ix:context", <<Attr("id", c1)>>, <<>>, InstantGeo),
    Elem("xbrli:context", <<Attr("id", c1)>>, <<>>, DurationPlain),
    Elem("ix:context", <<Attr("id", c1)>>, <<>>, OnlyStart),
    Elem("xbrli:context", <<Attr("id", c1)>>, <<>>, OnlyEnd),
    Elem("ix:context", <<Attr("id", c2)>>, <<>>, InstantAndDuration),
    Elem("xbrli:context", <<Attr("id", c2)>>, <<>>, NoMarkers),
    Elem("xbrli:context", <<Attr("id", c1)>>, <<>>, TwoInstants),
    Elem("ix:context", <<Attr("id", c2)>>, <<>>, <<>>) }

ResolveInit ==
  /\ ppc = "input"
  /\ markup \in SeqsUpTo(ContextBlockPool, MaxBlocks)
  /\ criteria = NoCriteria
  /\ facts = <<>>
  /\ contexts = EmptyObject
  /\ matches = [threw |-> FALSE, list |-> <<>>]
  /\ NetIdle
  /\ AuxIdle

ResolveNext == Parse

ResolveSpec == ResolveInit /\ [][ResolveNext]_vars

-----------------------------------------------------------------------------
(* Claims about the context resolver, checked under ResolveSpec.            *)

IsContextBlock(e) == e.tag \in {"ix:context", "xbrli:context"}

BlockId(e) == e.attrs[CHOOSE i \in 1..Len(e.attrs) : e.attrs[i].n = "id"].v

\* positions of the blocks of the markup that declare this identifier
BlocksOf(id, tags) ==
  {i \in 1..Len(markup) : markup[i].tag \in tags /\ BlockId(markup[i]) = id}

DeclaredIds == {BlockId(markup[i]) : i \in {j \in 1..Len(markup) : IsContextBlock(markup[j])}}

\* C15 as claimed: for an identifier declared by several blocks, of either
\* vocabulary, the map holds the record of the block that comes last in the
\* markup.
C15_LastInMarkupWins ==
  ppc = "parsed" =>
    /\ DOMAIN contexts = DeclaredIds
    /\ \A id \in DeclaredIds :
         LET last == SetMax(BlocksOf(id, {"ix:context", "xbrli:context"}))
         IN contexts[id] = ContextRecord(id, markup[last].kids)

\* the block whose record the map holds for an identifier
WinningBlock(id) ==
  IF BlocksOf(id, {"xbrli:context"}) # {}
  THEN SetMax(BlocksOf(id, {"xbrli:context"}))
  ELSE SetMax(BlocksOf(id, {"ix:context"}))

\* C15 as amended: the map has exactly the declared identifiers; for each it
\* holds the record of the last xbrli:context block with that identifier when
\* there is one, wherever it stands, and otherwise of the last ix:context
\* block with that identifier.
C15_LastOfVocabularyWins ==
  ppc = "parsed" =>
    /\ DOMAIN contexts = DeclaredIds
    /\ \A id \in DeclaredIds :
         contexts[id] = ContextRecord(id, markup[WinningBlock(id)].kids)

\* C15 witness: an ix:context block stands behind an xbrli:context block of
\* the same identifier
C15_Witness ==
  /\ ppc = "parsed"
  /\ \E i, j \in 1..Len(markup) :
       /\ i < j
       /\ markup[i].tag = "xbrli:context"
       /\ markup[j].tag = "ix:context"
       /\ BlockId(markup[i]) = BlockId(markup[j])

HasMarker(content, tag) == \E i \in 1..Len(content) : content[i].tag = tag

MarkerText(content, tag) ==
  content[CHOOSE i \in 1..Len(content) :
            content[i].tag = tag /\ \A j \in 1..(i - 1) : content[j].tag # tag].text

\* the period the markers of a block call for
ExpectedPeriod(content) ==
  IF HasMarker(content, "xbrli:instant")
  THEN [type |-> "instant", instant |-> Str(MarkerText(content, "xbrli:instant")),
        startDate |-> Undefined, endDate |-> Undefined]
  ELSE IF HasMarker(content, "xbrli:startDate") /\ HasMarker(content, "xbrli:endDate")
  THEN [type |-> "duration", instant |-> Undefined,
        startDate |-> Str(MarkerText(content, "xbrli:startDate")),
        endDate |-> Str(MarkerText(content, "xbrli:endDate"))]
  ELSE [type |-> "unknown", instant |-> Undefined,
        startDate |-> Undefined, endDate |-> Undefined]

\* C16: the period of a resolved context is 'instant' with the instant date
\* when its block has an instant marker; else 'duration' with both dates when
\* the block has a start-date and an end-date marker; else 'unknown' with no
\* date at all, a block with only one of the two markers included.
C16_PeriodKinds ==
  ppc = "parsed" =>
    \A id \in DOMAIN contexts :
      contexts[id].period = ExpectedPeriod(markup[WinningBlock(id)].kids)

\* C16 witness: a block with a start date and no end date was resolved
C16_Witness ==
  /\ ppc = "parsed"
  /\ \E id \in DOMAIN contexts :
       /\ contexts[id].period.type = "unknown"
       /\ HasMarker(markup[WinningBlock(id)].kids, "xbrli:startDate")


-----------------------------------------------------------------------------
(* One invocation over the network: getXbrlInstanceUrl called directly      *)
(* (args.entry = "locate") or through getDimensionalFacts (args.entry =     *)
(* "facts"), always with an accession number.  Code runs from one await to  *)
(* the next: every action takes the answer to the pending request and runs  *)
(* the code up to the next request or to the end of the invocation.         *)

HISTORY_TIMEOUT == 15000
HEAD_TIMEOUT == 10000
INDEX_TIMEOUT == 30000
DOWNLOAD_TIMEOUT == 60000
TICKERS_TIMEOUT == 30000
\* axios.head without a timeout option: axios's default, no timeout
NoTimeout == 0

RECURSIVE Repeat(_, _)
Repeat(c, n) == IF n <= 0 THEN <<>> ELSE <<c>> \o Repeat(c, n - 1)

\* s.padStart(n, '0')
padStart(s, n) == Repeat("0", n - Len(s)) \o s

\* s.replace(/^0+/, '')
RECURSIVE StripLeadingZeros(_)
StripLeadingZeros(s) ==
  IF s # <<>> /\ Head(s) = "0" THEN StripLeadingZeros(Tail(s)) ELSE s

\* s.replace(/-/g, '')
RemoveDashes(s) == SelectSeq(s, LAMBDA c : c # "-")

\* /^\d+$/.test(s)
AllDigits(s) == s # <<>> /\ \A i \in 1..Len(s) : IsDigit(s[i])

DotHtm == <<".", "h", "t", "m">>

SubmissionsUrl(cik) ==
  [kind |-> "submissions", cik |-> padStart(cik, 10), acc |-> <<>>, file |-> <<>>]

\* `${baseUrl}/${filename}`, baseUrl built from the CIK without leading
\* zeros and the accession number without dashes
ArchiveUrl(cik, accessionNumber, filename) ==
  [kind |-> "archive", cik |-> StripLeadingZeros(cik),
   acc |-> RemoveDashes(accessionNumber), file |-> filename]

IndexUrl(cik, accessionNumber) ==
  ArchiveUrl(cik, accessionNumber,
             accessionNumber \o <<"-", "i", "n", "d", "e", "x", ".", "h", "t", "m", "l">>)

TickersUrl == [kind |-> "tickers", cik |-> <<>>, acc |-> <<>>, file |-> <<>>]

NoUrl == [kind |-> "none", cik |-> <<>>, acc |-> <<>>, file |-> <<>>]

\* the body of an answer; only the field its kind names is meaningful
NoBody == [kind |-> "none", primaryDoc |-> Undefined, anchors |-> <<>>, html |-> <<>>, cik |-> <<>>]
HistoryBody(primaryDoc) == [NoBody EXCEPT !.kind = "history", !.primaryDoc = primaryDoc]
IndexBody(anchors) == [NoBody EXCEPT !.kind = "index", !.anchors = anchors]
DocumentBody(html) == [NoBody EXCEPT !.kind = "document", !.html = html]
TickersBody(cik) == [NoBody EXCEPT !.kind = "tickers", !.cik = cik]

Request(by, method, url, timeout) ==
  [by |-> by, method |-> method, url |-> url, timeout |-> timeout,
   status |-> "pending", body |-> NoBody]

\* the log with the pending request (its last entry) answered
Answered(log, status, body) ==
  [log EXCEPT ![Len(log)] = [@ EXCEPT !.status = status, !.body = body]]

\* axios's error.message for an answer that makes the promise reject
\* (a message is the sequence of the pieces its template literal joins)
AxiosMessage(req) ==
  IF req.status = "timeout"
  THEN <<"timeout of ", ToString(req.timeout), "ms exceeded">>
  ELSE <<"Request failed with status code ", req.status>>

Pending == [kind |-> "pending", message |-> <<>>, url |-> NoUrl,
            matchingFacts |-> <<>>, totalFacts |-> 0, totalContexts |-> 0]
ReturnedUrl(url) == [Pending EXCEPT !.kind = "returned", !.url = url]
Threw(message) == [Pending EXCEPT !.kind = "threw", !.message = message]
ReturnedFacts(url, matchingFacts, totalFacts, totalContexts) ==
  [Pending EXCEPT !.kind = "returned", !.url = url, !.matchingFacts = matchingFacts,
                  !.totalFacts = totalFacts, !.totalContexts = totalContexts]

Cfg(p, l, log, out) == [pc |-> p, loc |-> l, reqLog |-> log, outcome |-> out]

Issue(p, l, log, req) == Cfg(p, l, Append(log, req), Pending)

\* getDimensionalFacts: catch (error) { throw new Error(`Failed to get
\* dimensional facts: ${error.message}`) }
FactsCatch(l, log, message) ==
  Cfg("done", l, log, Threw(<<"Failed to get dimensional facts: ">> \o message))

\* mutant: a failed download answers with an empty result instead of throwing
ParseCatch_ReturnsEmpty(l, log, transportMessage) ==
  Cfg("done", l, log, ReturnedFacts(l.located.url, <<>>, 0, 0))

\* mutant: a failed download is tried again
ParseCatch_Retries(l, log, transportMessage) ==
  Issue("awaitDownload", l, log, Request(0, "GET", l.located.url, DOWNLOAD_TIMEOUT))

\* parseXbrlInstance: catch (error) { throw new Error(`Failed to parse iXBRL
\* instance: ${error.message}`) }
ParseCatch(l, log, transportMessage) ==
  LET err == <<"Failed to parse iXBRL instance: ">> \o transportMessage
  IN FactsCatch([l EXCEPT !.parseError = err], log, err)

\* parseXbrlInstance after the download, then findDimensionalFacts and the
\* result object of getDimensionalFacts; a TypeError of the matcher (its
\* message shortened here) lands in the catch of getDimensionalFacts
ParseAndMatch(a, l, log, html) ==
  LET xbrlData == [facts |-> extractFactsFromIxbrl(html),
                   contexts |-> extractContextsFromIxbrl(html)]
      found == findDimensionalFacts(xbrlData, a.criteria)
  IN IF found.threw
     THEN FactsCatch(l, log, <<"Cannot read properties of undefined">>)
     ELSE Cfg("done", l, log,
              ReturnedFacts(l.located.url, found.list, Len(xbrlData.facts),
                            Cardinality(DOMAIN xbrlData.contexts)))

\* getXbrlInstanceUrl returns url: a direct call ends here, getDimensionalFacts
\* goes on to parseXbrlInstance(xbrlUrl), which issues its GET
LocatorReturns(a, l, log, url) ==
  LET l2 == [l EXCEPT !.located = [kind |-> "url", url |-> url, message |-> <<>>]]
  IN IF a.entry = "locate"
     THEN Cfg("done", l2, log, ReturnedUrl(url))
     ELSE Issue("awaitDownload", l2, log, Request(0, "GET", url, DOWNLOAD_TIMEOUT))

LocatorThrows(a, l, log, message) ==
  LET l2 == [l EXCEPT !.located = [kind |-> "threw", url |-> NoUrl, message |-> message]]
  IN IF a.entry = "locate"
     THEN Cfg("done", l2, log, Threw(message))
     ELSE FactsCatch(l2, log, message)

\* the characters of a text joined into one string
RECURSIVE Text(_)
Text(s) == IF s = <<>> THEN "" ELSE Head(s) \o Text(Tail(s))

NotFoundMessage(accessionNumber) ==
  <<"Could not find iXBRL document for accession ", Text(accessionNumber)>>

fallbackPatterns(accessionNumber) ==
  << <<"j", "n", "j", "-", "*", ".", "h", "t", "m">>,
     accessionNumber \o DotHtm,
     RemoveDashes(accessionNumber) \o DotHtm,
     <<"p", "r", "i", "m", "a", "r", "y", "_", "d", "o", "c">> \o DotHtm,
     <<"d", "o", "c", "u", "m", "e", "n", "t">> \o DotHtm >>

\* the next pattern at or after position i that holds no '*', 0 when none
NextPlainPattern(patterns, i) ==
  LET plain == {j \in i..Len(patterns) : ~includes(patterns[j], <<"*">>)}
  IN IF plain = {} THEN 0 ELSE CHOOSE j \in plain : \A k \in plain : j <= k

\* mutant: with every pattern tried the function returns no URL instead of
\* throwing
TryFallback_ReturnsNothing(a, l, log, i) ==
  LET patterns == fallbackPatterns(a.accessionNumber)
      j == NextPlainPattern(patterns, i)
  IN IF j = 0
     THEN LocatorReturns(a, l, log, NoUrl)
     ELSE Issue("awaitFallbackHead", [l EXCEPT !.i = j], log,
                Request(5, "HEAD", ArchiveUrl(l.cik, a.accessionNumber, patterns[j]),
                        NoTimeout))

\* the final-fallback loop from position i on; exhausted, the function throws
TryFallback(a, l, log, i) ==
  LET patterns == fallbackPatterns(a.accessionNumber)
      j == NextPlainPattern(patterns, i)
  IN IF j = 0
     THEN LocatorThrows(a, l, log, NotFoundMessage(a.accessionNumber))
     ELSE Issue("awaitFallbackHead", [l EXCEPT !.i = j], log,
                Request(5, "HEAD", ArchiveUrl(l.cik, a.accessionNumber, patterns[j]),
                        NoTimeout))

\* mutant: the listed files are checked all at once (Promise.all over the
\* list) instead of one after the other
TryListed_AllAtOnce(a, l, log, i) ==
  IF i <= Len(l.possibleIxbrlFiles)
  THEN Cfg("awaitListHead", [l EXCEPT !.i = Len(l.possibleIxbrlFiles)],
           log \o [k \in 1..(Len(l.possibleIxbrlFiles) - i + 1) |->
                     Request(4, "HEAD",
                             ArchiveUrl(l.cik, a.accessionNumber,
                                        l.possibleIxbrlFiles[i + k - 1]),
                             NoTimeout)],
           Pending)
  ELSE TryFallback(a, l, log, 1)

\* the loop over possibleIxbrlFiles from position i on
TryListed(a, l, log, i) ==
  IF i <= Len(l.possibleIxbrlFiles)
  THEN Issue("awaitListHead", [l EXCEPT !.i = i], log,
             Request(4, "HEAD",
                     ArchiveUrl(l.cik, a.accessionNumber, l.possibleIxbrlFiles[i]),
                     NoTimeout))
  ELSE TryFallback(a, l, log, 1)

TryIndex(a, l, log) ==
  Issue("awaitIndex", l, log,
        Request(3, "GET", IndexUrl(l.cik, a.accessionNumber), INDEX_TIMEOUT))

\* if (primaryDocument && primaryDocument.endsWith('.htm'))
TryKnown(a, l, log) ==
  IF Truthy(l.primaryDocument) /\ endsWith(l.primaryDocument.s, DotHtm)
  THEN Issue("awaitKnownHead", l, log,
             Request(2, "HEAD",
                     ArchiveUrl(l.cik, a.accessionNumber, l.primaryDocument.s),
                     HEAD_TIMEOUT))
  ELSE TryIndex(a, l, log)

\* getXbrlInstanceUrl(accessionNumber, cik, primaryDocument) up to its first
\* request
CallLocator(a, l, log, cik, primaryDocument) ==
  Issue("awaitHistory", [l EXCEPT !.cik = cik, !.primaryDocument = primaryDocument],
        log, Request(1, "GET", SubmissionsUrl(cik), HISTORY_TIMEOUT))

\* getDimensionalFacts inside its try block, the CIK known: the local
\* `let primaryDocument = null` hides the parameter of the same name, and with
\* an accession number given nothing assigns it
CallLocatorFromFacts(a, l, log, cik) ==
  CallLocator(a, l, log, cik, Undefined)

\* /<a[^>]*href="([^"]*\.htm)"[^>]*>.*?10-[QK]/i : the first anchor whose href
\* ends in .htm (any case) and that has 10-Q or 10-K behind it on its line
primaryDocMatch(anchors) ==
  LET hits == {i \in 1..Len(anchors) :
                 endsWith(toLowerCase(anchors[i].href), DotHtm) /\ anchors[i].tagged}
  IN IF hits = {} THEN 0 ELSE CHOOSE i \in hits : \A j \in hits : i <= j

EX == <<"e", "x">>
EXHIBIT == <<"e", "x", "h", "i", "b", "i", "t">>
TABLE == <<"t", "a", "b", "l", "e">>
MAX_FILENAME == 50

findCompanySpecificPatterns(anchors) ==
  LET keep(a) ==
        /\ endsWith(toLowerCase(a.href), DotHtm)
        /\ ~includes(a.href, EX)
        /\ ~includes(a.href, EXHIBIT)
        /\ ~includes(a.href, TABLE)
        /\ Len(a.href) < MAX_FILENAME
      kept == SelectSeq(anchors, keep)
  IN [i \in 1..Len(kept) |-> kept[i].href]


-----------------------------------------------------------------------------
(* Inputs and answers of the remote host.                                   *)

Acc == <<"0", "-", "1">>
NumericCik == <<"0", "7">>
Ticker == <<"J">>
PaddedCik == padStart(<<"7">>, 10)

R_HTM == <<"r">> \o DotHtm
Q_HTM == <<"q">> \o DotHtm
R_XML == <<"r", ".", "x", "m", "l">>
EX_HTM == <<"e", "x", "9">> \o DotHtm
TABLE_HTM == <<"t", "a", "b", "l", "e">> \o DotHtm
LONG_HTM == Repeat("a", MAX_FILENAME) \o DotHtm

Anchor(href, tagged) == [href |-> href, tagged |-> tagged]

IndexBodies ==
  { <<>>,
    <<Anchor(R_HTM, FALSE), Anchor(Q_HTM, FALSE)>>,
    <<Anchor(EX_HTM, FALSE), Anchor(R_HTM, TRUE)>>,
    <<Anchor(R_XML, TRUE), Anchor(EX_HTM, FALSE), Anchor(R_HTM, FALSE),
      Anchor(Q_HTM, FALSE)>>,
    <<Anchor(TABLE_HTM, FALSE), Anchor(LONG_HTM, FALSE), Anchor(Q_HTM, FALSE)>> }

\* filings.primaryDocument?.[filingIndex] when the filing is listed; the
\* filing not being listed, or the list missing, behaves like undefined
HistoryDocs == {Undefined, Str(R_HTM), Str(R_XML)}

\* answers to a HEAD: 200, another 2xx (resolves, but is not 200), 403 (rejects)
HeadAnswers == {"200", "204", "403"}

FailAnswers == {"403", "timeout"}

NetDocs ==
  { <<>>,
    <<Leaf("ix:nonFraction",
           <<Attr("name", gRev), Attr("contextRef", c1), Attr("scale", <<"6">>)>>,
           <<"6", "3", "8">>),
      Leaf("ix:nonNumeric", <<Attr("name", Tax), Attr("contextRef", c2)>>, <<"n">>),
      Elem("ix:context", <<Attr("id", c1)>>, <<>>, InstantGeo)>>,
    <<Leaf("ix:nonFraction",
           <<Attr("name", gRev), Attr("contextRef", VALUE_OF)>>, <<"5">>)>> }

GeoCriteria ==
  Criteria(Undefined, Undefined, NoRange,
           [has |-> TRUE, map |-> SetKey(EmptyObject, GeoAxis, <<"n", "o", "n", "u", "s">>)])

NetCriteria == {NoCriteria, GeoCriteria}

NetArgs ==
  [entry : {"locate"}, cikOrTicker : {NumericCik}, accessionNumber : {Acc},
   primaryDocument : {Undefined, Str(R_HTM), Str(R_XML)}, criteria : {NoCriteria}]
  \cup
  [entry : {"facts"}, cikOrTicker : {NumericCik, Ticker}, accessionNumber : {Acc},
   primaryDocument : {Undefined, Str(Q_HTM)}, criteria : NetCriteria]

NoLocals ==
  [cik |-> <<>>, primaryDocument |-> Undefined, possibleIxbrlFiles |-> <<>>, i |-> 0,
   located |-> [kind |-> "pending", url |-> NoUrl, message |-> <<>>],
   parseError |-> <<>>]

-----------------------------------------------------------------------------
(* The invocation as a state machine.                                       *)

PureIdle ==
  /\ ppc = "idle"
  /\ markup = <<>>
  /\ criteria = NoCriteria
  /\ facts = <<>>
  /\ contexts = EmptyObject
  /\ matches = [threw |-> FALSE, list |-> <<>>]

NetInit ==
  /\ pc = "start"
  /\ args \in NetArgs
  /\ loc = NoLocals
  /\ reqLog = <<>>
  /\ outcome = Pending
  /\ PureIdle
  /\ AuxIdle

Become(cfg) ==
  /\ pc' = cfg.pc
  /\ loc' = cfg.loc
  /\ reqLog' = cfg.reqLog
  /\ outcome' = cfg.outcome
  /\ UNCHANGED <<args, pureVars, auxVars>>

\* the synchronous head of the invocation, up to its first request
Start ==
  /\ pc = "start"
  /\ Become(IF args.entry = "locate"
            THEN CallLocator(args, loc, reqLog, args.cikOrTicker, args.primaryDocument)
            ELSE IF AllDigits(args.cikOrTicker)
            THEN CallLocatorFromFacts(args, loc, reqLog, args.cikOrTicker)
            ELSE Issue("awaitCik", loc, reqLog,
                       Request(0, "GET", TickersUrl, TICKERS_TIMEOUT)))

\* getCompanyCik answered: a failure and an unknown ticker both throw before
\* the try block of getDimensionalFacts is entered
CikAnswered ==
  /\ pc = "awaitCik"
  /\ \/ \E st \in FailAnswers :
          LET log == Answered(reqLog, st, NoBody)
          IN Become(Cfg("done", loc, log,
                        Threw(<<"Failed to lookup CIK for ticker ",
                                Text(args.cikOrTicker), ": ">>
                              \o AxiosMessage(log[Len(log)]))))
     \/ Become(Cfg("done", loc, Answered(reqLog, "200", TickersBody(<<>>)),
                   Threw(<<"Could not find CIK for ticker: ", Text(args.cikOrTicker)>>)))
     \/ Become(CallLocatorFromFacts(args, loc, Answered(reqLog, "200", TickersBody(PaddedCik)),
                                    PaddedCik))

\* after the submissions answer: the listed primary document, when it ends in
\* .htm, is checked with a HEAD; anything else falls through to the archives
AfterHistory(a, l, log, primaryDoc) ==
  IF Truthy(primaryDoc) /\ endsWith(primaryDoc.s, DotHtm)
  THEN Issue("awaitHistoryHead", l, log,
             Request(1, "HEAD", ArchiveUrl(l.cik, a.accessionNumber, primaryDoc.s),
                     HEAD_TIMEOUT))
  ELSE TryKnown(a, l, log)

HistoryAnswered ==
  /\ pc = "awaitHistory"
  /\ \/ \E st \in FailAnswers :
          Become(TryKnown(args, loc, Answered(reqLog, st, NoBody)))
     \/ \E d \in HistoryDocs :
          Become(AfterHistory(args, loc, Answered(reqLog, "200", HistoryBody(d)), d))

\* mutant: a reachable document does not end the cascade
HeadAnswer_KeepsGoing(a, l, log, st, next) == next

\* a HEAD answered inside one of the strategies: status 200 returns the url
\* that was checked, anything else moves on
HeadAnswer(a, l, log, st, next) ==
  IF st = "200" THEN LocatorReturns(a, l, log, log[Len(log)].url) ELSE next

HistoryHeadAnswered ==
  /\ pc = "awaitHistoryHead"
  /\ \E st \in HeadAnswers :
       LET log == Answered(reqLog, st, NoBody)
       IN Become(HeadAnswer(args, loc, log, st, TryKnown(args, loc, log)))

KnownHeadAnswered ==
  /\ pc = "awaitKnownHead"
  /\ \E st \in HeadAnswers :
       LET log == Answered(reqLog, st, NoBody)
       IN Become(HeadAnswer(args, loc, log, st, TryIndex(args, loc, log)))

\* the index page arrived: a tagged anchor is returned as it is, without a
\* request; otherwise the listed .htm files are tried
AfterIndex(a, l, log, anchors) ==
  LET m == primaryDocMatch(anchors)
  IN IF m # 0
     THEN LocatorReturns(a, l, log, ArchiveUrl(l.cik, a.accessionNumber, anchors[m].href))
     ELSE TryListed(a, [l EXCEPT !.possibleIxbrlFiles = findCompanySpecificPatterns(anchors)],
                    log, 1)

\* mutant: a failed index fetch ends the invocation with the transport error
IndexCatch_Rethrows(a, l, log) == LocatorThrows(a, l, log, AxiosMessage(log[Len(log)]))

\* the catch around the index strategy is empty: the final fallback follows
IndexCatch(a, l, log) == TryFallback(a, l, log, 1)

IndexAnswered ==
  /\ pc = "awaitIndex"
  /\ \/ \E st \in FailAnswers :
          Become(IndexCatch(args, loc, Answered(reqLog, st, NoBody)))
     \/ \E b \in IndexBodies :
          Become(AfterIndex(args, loc, Answered(reqLog, "200", IndexBody(b)), b))

ListHeadAnswered ==
  /\ pc = "awaitListHead"
  /\ \E st \in HeadAnswers :
       LET log == Answered(reqLog, st, NoBody)
       IN Become(HeadAnswer(args, loc, log, st, TryListed(args, loc, log, loc.i + 1)))

FallbackHeadAnswered ==
  /\ pc = "awaitFallbackHead"
  /\ \E st \in HeadAnswers :
       LET log == Answered(reqLog, st, NoBody)
       IN Become(HeadAnswer(args, loc, log, st, TryFallback(args, loc, log, loc.i + 1)))

\* the one GET of parseXbrlInstance answered
DownloadAnswered ==
  /\ pc = "awaitDownload"
  /\ \/ \E st \in FailAnswers :
          LET log == Answered(reqLog, st, NoBody)
          IN Become(ParseCatch(loc, log, AxiosMessage(log[Len(log)])))
     \/ \E html \in NetDocs :
          Become(ParseAndMatch(args, loc, Answered(reqLog, "200", DocumentBody(html)), html))

NetNext ==
  \/ Start
  \/ CikAnswered
  \/ HistoryAnswered
  \/ HistoryHeadAnswered
  \/ KnownHeadAnswered
  \/ IndexAnswered
  \/ ListHeadAnswered
  \/ FallbackHeadAnswered
  \/ DownloadAnswered

NetSpec == NetInit /\ [][NetNext]_vars


-----------------------------------------------------------------------------
(* Claims about the locator and the entry point, checked under NetSpec.     *)

\* positions of the log that hold a request of getXbrlInstanceUrl
LocatorRequests == {i \in 1..Len(reqLog) : reqLog[i].by # 0}

\* positions of the log that hold the GET of parseXbrlInstance
Downloads ==
  {i \in 1..Len(reqLog) :
     reqLog[i].by = 0 /\ reqLog[i].method = "GET" /\ reqLog[i].url.kind = "archive"}

\* C1: every URL getXbrlInstanceUrl returns was the target of a HEAD request
\* of the same invocation that answered 200.
C1_ReturnedUrlVerified ==
  loc.located.kind = "url" =>
    \E i \in LocatorRequests :
      /\ reqLog[i].method = "HEAD"
      /\ reqLog[i].url = loc.located.url
      /\ reqLog[i].status = "200"

\* a request of the locator that ended its strategy with a URL
Succeeded(r) ==
  \/ r.method = "HEAD" /\ r.status = "200"
  \/ r.by = 3 /\ r.status = "200" /\ primaryDocMatch(r.body.anchors) # 0

HasRequest(by, method) ==
  \E i \in LocatorRequests : reqLog[i].by = by /\ reqLog[i].method = method

\* C2: the strategies run in the order 1 (filing history), 2 (known
\* filename), 3 (tagged anchor of the index), 4 (.htm files of the index),
\* 5 (conventional filenames); a request of the locator is issued only when
\* every earlier request of it is answered without success; and a later
\* strategy has a request only when each applicable earlier strategy was tried.
C2_StrategyOrder ==
  /\ \A i, j \in LocatorRequests :
       i < j => /\ reqLog[i].by <= reqLog[j].by
                /\ reqLog[i].status # "pending"
                /\ ~Succeeded(reqLog[i])
  /\ LocatorRequests # {} =>
       /\ reqLog[CHOOSE i \in LocatorRequests : \A j \in LocatorRequests : i <= j].by = 1
       /\ HasRequest(1, "GET")
  /\ \A j \in LocatorRequests :
       /\ (reqLog[j].by >= 2 /\ \E i \in LocatorRequests :
             /\ reqLog[i].by = 1 /\ reqLog[i].method = "GET" /\ reqLog[i].status = "200"
             /\ Truthy(reqLog[i].body.primaryDoc)
             /\ endsWith(reqLog[i].body.primaryDoc.s, DotHtm))
            => HasRequest(1, "HEAD")
       /\ (reqLog[j].by >= 3 /\ Truthy(loc.primaryDocument)
             /\ endsWith(loc.primaryDocument.s, DotHtm))
            => HasRequest(2, "HEAD")
       /\ reqLog[j].by = 4 =>
            \E i \in LocatorRequests : reqLog[i].by = 3 /\ reqLog[i].status = "200"
       /\ reqLog[j].by = 5 =>
            \A i \in LocatorRequests :
              (reqLog[i].by = 3 /\ reqLog[i].status = "200") =>
                Cardinality({k \in LocatorRequests : reqLog[k].by = 4})
                  = Len(findCompanySpecificPatterns(reqLog[i].body.anchors))

\* C2 witness: all five strategies were tried, in order, and the last request
\* of the fifth found the document
C2_Witness ==
  /\ \A by \in 1..5 : \E i \in LocatorRequests : reqLog[i].by = by
  /\ HasRequest(1, "HEAD")
  /\ reqLog[Len(reqLog)].by = 5
  /\ reqLog[Len(reqLog)].status = "200"
  /\ loc.located.kind = "url"

DOCUMENT_HTM == <<"d", "o", "c", "u", "m", "e", "n", "t">> \o DotHtm

\* every strategy has run dry: the last conventional filename was checked and
\* did not answer 200
Exhausted ==
  \E i \in LocatorRequests :
    /\ reqLog[i].by = 5
    /\ reqLog[i].url.file = DOCUMENT_HTM
    /\ reqLog[i].status \notin {"pending", "200"}

\* C3: when no strategy yields a URL, getXbrlInstanceUrl throws an error whose
\* message names the accession number; it throws nothing else, and a URL it
\* returns is never empty.
C3_ExhaustionThrows ==
  /\ Exhausted =>
       /\ loc.located.kind = "threw"
       /\ loc.located.message[1] = "Could not find iXBRL document for accession "
       /\ \E k \in 1..Len(loc.located.message) :
            loc.located.message[k] = Text(args.accessionNumber)
       /\ args.entry = "locate" => (pc = "done" /\ outcome = Threw(loc.located.message))
  /\ loc.located.kind = "threw" => Exhausted
  /\ loc.located.kind = "url" =>
       /\ loc.located.url.kind = "archive"
       /\ loc.located.url.file # <<>>
       /\ args.entry = "locate" => (pc = "done" /\ outcome = ReturnedUrl(loc.located.url))

\* C3 witness: a direct call that ran through all strategies and threw
C3_Witness ==
  /\ args.entry = "locate"
  /\ Exhausted
  /\ HasRequest(4, "HEAD")
  /\ outcome.kind = "threw"

\* C4: getDimensionalFacts called with an accession number and a
\* knownPrimaryDocument ending in .htm: before the locator fetches the filing
\* index it has checked the direct URL built from that filename.
C4_KnownFilenameChecked ==
  (args.entry = "facts" /\ Truthy(args.primaryDocument)
     /\ endsWith(args.primaryDocument.s, DotHtm)) =>
    \A j \in LocatorRequests :
      reqLog[j].by = 3 =>
        \E i \in LocatorRequests :
          /\ i < j
          /\ reqLog[i].method = "HEAD"
          /\ reqLog[i].url = ArchiveUrl(loc.cik, args.accessionNumber, args.primaryDocument.s)

\* C5: getDimensionalFacts returns a result only after the one download of the
\* located document answered 200, and then matchingFacts and the totals are
\* those of the whole downloaded markup; when locating, downloading or
\* matching failed it throws and returns no result.
C5_NoPartialResult ==
  args.entry = "facts" =>
    /\ outcome.kind = "returned" =>
         /\ loc.located.kind = "url"
         /\ Downloads = {Len(reqLog)}
         /\ LET d == reqLog[Len(reqLog)]
                xbrlData == [facts |-> extractFactsFromIxbrl(d.body.html),
                             contexts |-> extractContextsFromIxbrl(d.body.html)]
            IN /\ d.url = loc.located.url
               /\ d.status = "200"
               /\ d.body.kind = "document"
               /\ outcome.url = d.url
               /\ outcome.matchingFacts = findDimensionalFacts(xbrlData, args.criteria).list
               /\ ~findDimensionalFacts(xbrlData, args.criteria).threw
               /\ outcome.totalFacts = Len(xbrlData.facts)
               /\ outcome.totalContexts = Cardinality(DOMAIN xbrlData.contexts)
    /\ (pc = "done" /\ (\/ loc.located.kind # "url"
                        \/ \E i \in Downloads : reqLog[i].status # "200")) =>
         /\ outcome.kind = "threw"
         /\ outcome.message # <<>>
         /\ outcome.matchingFacts = <<>>

\* C5 witness: the download of the located document failed
C5_Witness ==
  /\ args.entry = "facts"
  /\ pc = "done"
  /\ \E i \in Downloads : reqLog[i].status = "403"

\* C6: parseXbrlInstance issues exactly one GET for the document; when that
\* GET fails nothing follows it, and the call throws the parse-failure prefix
\* followed by the transport error's message.
C6_SingleDownload ==
  /\ Cardinality(Downloads) <= 1
  /\ (args.entry = "facts" /\ loc.located.kind = "url") => Cardinality(Downloads) = 1
  /\ \A i \in Downloads :
       /\ reqLog[i].url = loc.located.url
       /\ reqLog[i].status \in FailAnswers =>
            /\ i = Len(reqLog)
            /\ pc = "done"
            /\ loc.parseError =
                 <<"Failed to parse iXBRL instance: ">> \o AxiosMessage(reqLog[i])
            /\ outcome.kind = "threw"

\* C6 witness: the download timed out
C6_Witness ==
  /\ pc = "done"
  /\ \E i \in Downloads : reqLog[i].status = "timeout"

\* edgar-api.js, makeEdgarRequest: the message thrown for a 403
ACCESS_DENIED_HINT ==
  "SEC API access denied. Please ensure you have a valid User-Agent header and are not exceeding rate limits."

\* C7: when the document host answers a request of the core with 403 and the
\* operation fails on it, the error carries the access-denied hint.
C7_AccessDeniedHint ==
  (/\ args.entry = "facts"
   /\ pc = "done"
   /\ outcome.kind = "threw"
   /\ reqLog[Len(reqLog)].url.kind = "archive"
   /\ reqLog[Len(reqLog)].status = "403") =>
    \E k \in 1..Len(outcome.message) : outcome.message[k] = ACCESS_DENIED_HINT

\* positions of the log whose request is still outstanding
Outstanding == {i \in 1..Len(reqLog) : reqLog[i].status = "pending"}

\* C22: within one invocation at most one request is outstanding at any
\* moment: a request is issued only after every earlier request of the
\* invocation was answered or failed, and none is left when it ends.
C22_OneOutstanding ==
  /\ Cardinality(Outstanding) <= 1
  /\ \A i \in Outstanding : i = Len(reqLog)
  /\ pc = "done" => Outstanding = {}

\* C22 witness: getDimensionalFacts went through ticker lookup, history,
\* index, two listed files and a conventional filename, and its download is
\* the one request that is outstanding
C22_Witness ==
  /\ args.entry = "facts"
  /\ pc = "awaitDownload"
  /\ Outstanding = {Len(reqLog)}
  /\ Cardinality({i \in LocatorRequests : reqLog[i].by = 4}) >= 2
  /\ HasRequest(5, "HEAD")
  /\ reqLog[1].url = TickersUrl

\* C24: every HEAD request of the locator, in every strategy, carries the
\* timeout of 10 seconds, which is shorter than the timeout of every content
\* download; no HEAD request goes out without a timeout.
C24_HeadTimeout ==
  /\ HEAD_TIMEOUT < INDEX_TIMEOUT
  /\ HEAD_TIMEOUT < DOWNLOAD_TIMEOUT
  /\ HEAD_TIMEOUT < HISTORY_TIMEOUT
  /\ \A i \in LocatorRequests :
       reqLog[i].method = "HEAD" =>
         /\ reqLog[i].timeout # NoTimeout
         /\ reqLog[i].timeout = HEAD_TIMEOUT

\* the anchors of the index page whose href ends in .htm, when the index page
\* arrived
HtmLinks ==
  LET got == {i \in LocatorRequests : reqLog[i].by = 3 /\ reqLog[i].status = "200"}
  IN IF got = {} THEN 0
     ELSE LET anchors == reqLog[CHOOSE i \in got : TRUE].body.anchors
          IN Cardinality({k \in 1..Len(anchors) :
                            endsWith(toLowerCase(anchors[k].href), DotHtm)})

\* the locator was entered and has ended
LocatorEnded == loc.located.kind # "pending"

\* what C28 says of every state of an invocation
C28_Bounded ==
  /\ Cardinality(LocatorRequests) <= 8 + HtmLinks
  /\ LocatorEnded =>
       \/ loc.located.kind = "url" /\ loc.located.url.kind = "archive"
       \/ /\ loc.located.kind = "threw"
          /\ loc.located.message = NotFoundMessage(args.accessionNumber)
  /\ (pc = "done" /\ LocatorRequests # {}) => LocatorEnded
  /\ \A i \in LocatorRequests :
       (i < Len(reqLog) /\ reqLog[i].status \in FailAnswers) =>
         reqLog[i + 1].by >= reqLog[i].by

\* every request that is outstanding is answered or fails in the end
NetLiveSpec == NetSpec /\ WF_vars(NetNext)

\* C28: given string arguments and every request completing or failing,
\* getXbrlInstanceUrl ends after at most 8 requests plus one for each .htm
\* link of the filing index; a failed request moves the cascade on, and the
\* invocation ends with a URL or with the discovery-exhaustion error.
C28_BoundedTermination == [](C28_Bounded) /\ <>(pc = "done")

\* C28 witness: a direct call whose index listed two .htm links and whose
\* every check was refused: 8 + 2 requests went out before the exhaustion
\* error
C28_Witness ==
  /\ args.entry = "locate"
  /\ pc = "done"
  /\ HtmLinks = 2
  /\ Cardinality(LocatorRequests) = 8 + HtmLinks
  /\ \A i \in LocatorRequests : reqLog[i].method = "HEAD" => reqLog[i].status = "403"
  /\ outcome = Threw(NotFoundMessage(args.accessionNumber))

\* a direct call in which the history fetch and the index fetch both failed
\* and the cascade went on to the conventional filenames
C28_FailuresAbsorbed ==
  /\ args.entry = "locate"
  /\ pc = "done"
  /\ reqLog[1].status = "timeout"
  /\ \E i \in LocatorRequests : reqLog[i].by = 3 /\ reqLog[i].status = "403"
  /\ reqLog[Len(reqLog)].by = 5
  /\ outcome.kind = "returned"


-----------------------------------------------------------------------------
(* filterFilings (edgar-api.js) and the filter_filings case of the tool     *)
(* handler (index.js).  A filing is [form, filingDate], a filter set is     *)
(* [formType, startDate, endDate, limit], each a JavaScript value.          *)

\* the UTF-16 code unit of a character of a date
CodeUnit(c) == IF c = "-" THEN 45 ELSE 48 + DigitVal(c)

\* a < b for two strings: the first differing code unit decides, a proper
\* prefix is smaller
RECURSIVE StringLess(_, _)
StringLess(a, b) ==
  IF b = <<>> THEN FALSE
  ELSE IF a = <<>> THEN TRUE
  ELSE IF Head(a) # Head(b) THEN CodeUnit(Head(a)) < CodeUnit(Head(b))
  ELSE StringLess(Tail(a), Tail(b))

\* if (filters.formType) filtered = filtered.filter(filing => filing.form &&
\*   filing.form.toLowerCase().includes(filters.formType.toLowerCase()))
ByFormType(filtered, filters) ==
  LET keep(filing) ==
        /\ Truthy(filing.form)
        /\ includes(toLowerCase(filing.form.s), toLowerCase(filters.formType.s))
  IN IF Truthy(filters.formType) THEN SelectSeq(filtered, keep) ELSE filtered

\* filing.filingDate && filing.filingDate >= filters.startDate
ByStartDate(filtered, filters) ==
  LET keep(filing) ==
        /\ Truthy(filing.filingDate)
        /\ ~StringLess(filing.filingDate.s, filters.startDate.s)
  IN IF Truthy(filters.startDate) THEN SelectSeq(filtered, keep) ELSE filtered

\* mutant: the end date itself is excluded
ByEndDate_Exclusive(filtered, filters) ==
  LET keep(filing) ==
        /\ Truthy(filing.filingDate)
        /\ StringLess(filing.filingDate.s, filters.endDate.s)
  IN IF Truthy(filters.endDate) THEN SelectSeq(filtered, keep) ELSE filtered

\* filing.filingDate && filing.filingDate <= filters.endDate
ByEndDate(filtered, filters) ==
  LET keep(filing) ==
        /\ Truthy(filing.filingDate)
        /\ ~StringLess(filters.endDate.s, filing.filingDate.s)
  IN IF Truthy(filters.endDate) THEN SelectSeq(filtered, keep) ELSE filtered

\* if (filters.limit && filters.limit > 0) filtered = filtered.slice(0, limit)
ByLimit(filtered, filters) ==
  IF Truthy(filters.limit) /\ filters.limit.n > 0
  THEN SubSeq(filtered, 1, IF filters.limit.n < Len(filtered) THEN filters.limit.n
                           ELSE Len(filtered))
  ELSE filtered

filterFilings(filings, filters) ==
  ByLimit(ByEndDate(ByStartDate(ByFormType(filings, filters), filters), filters), filters)

\* index.js, case 'filter_filings': a parameter enters the filter set only
\* when it is truthy
HandlerFilters(params) ==
  [formType |-> IF Truthy(params.formType) THEN params.formType ELSE Undefined,
   startDate |-> IF Truthy(params.startDate) THEN params.startDate ELSE Undefined,
   endDate |-> IF Truthy(params.endDate) THEN params.endDate ELSE Undefined,
   limit |-> IF Truthy(params.limit) THEN params.limit ELSE Undefined]

MaxFilings == 3

Jan23 == <<"2", "3", "-", "0", "1">>
Jun23 == <<"2", "3", "-", "0", "6">>
Jan24 == <<"2", "4", "-", "0", "1">>
FORM_10K == <<"1", "0", "-", "K">>
FORM_10KA == <<"1", "0", "-", "K", "/", "A">>
FORM_8K == <<"8", "-", "K">>

Filing(form, filingDate) == [form |-> form, filingDate |-> filingDate]

FilingPool ==
  { Filing(Str(FORM_10K), Str(Jan23)),
    Filing(Str(FORM_10KA), Str(Jan24)),
    Filing(Str(FORM_8K), Str(Jun23)),
    Filing(Undefined, Str(Jun23)),
    Filing(Str(FORM_10K), Undefined) }

FilterPool ==
  [formType : {Undefined, Str(<<>>), Str(<<"1", "0", "-", "k">>)},
   startDate : {Undefined, Str(<<>>), Str(Jun23)},
   endDate : {Undefined, Str(Jun23)},
   limit : {Undefined, Num(0), Num(1), Num(2)}]

FilterInit ==
  /\ filt \in [pc : {"input"}, via : {"none"},
               filings : SeqsUpTo(FilingPool, MaxFilings),
               filters : FilterPool, result : {<<>>}]
  /\ ppc = "idle"
  /\ markup = <<>>
  /\ criteria = NoCriteria
  /\ facts = <<>>
  /\ contexts = EmptyObject
  /\ matches = [threw |-> FALSE, list |-> <<>>]
  /\ NetIdle
  /\ SecondIdle /\ OtherIdle /\ CallIdle /\ TblIdle

\* filterFilings called by a script with the filter set as it is
FilterDirect ==
  /\ filt.pc = "input"
  /\ filt' = [filt EXCEPT !.pc = "returned", !.via = "direct",
                          !.result = filterFilings(filt.filings, filt.filters)]
  /\ UNCHANGED <<pureVars, netVars, second, other, call, tbl>>

\* filterFilings called by the tool handler with the filter set it builds
FilterByTool ==
  /\ filt.pc = "input"
  /\ filt' = [filt EXCEPT !.pc = "returned", !.via = "tool",
                          !.result = filterFilings(filt.filings,
                                                   HandlerFilters(filt.filters))]
  /\ UNCHANGED <<pureVars, netVars, second, other, call, tbl>>

FilterNext == FilterDirect \/ FilterByTool

FilterSpec == FilterInit /\ [][FilterNext]_vars

\* a filter is supplied when it has a value JavaScript counts as one: a
\* non-empty string
Supplied(v) == v.k = "str" /\ v.s # <<>>

\* the filing passes every supplied filter
PassesFilters(filing, filters) ==
  /\ Supplied(filters.formType) =>
       /\ filing.form.k = "str"
       /\ \E i \in 0..Len(filing.form.s) :
            /\ i + Len(filters.formType.s) <= Len(filing.form.s)
            /\ toLowerCase(SubSeq(filing.form.s, i + 1, i + Len(filters.formType.s)))
                 = toLowerCase(filters.formType.s)
  /\ Supplied(filters.startDate) =>
       /\ filing.filingDate.k = "str"
       /\ (filing.filingDate.s = filters.startDate.s
           \/ StringLess(filters.startDate.s, filing.filingDate.s))
  /\ Supplied(filters.endDate) =>
       /\ filing.filingDate.k = "str"
       /\ (filing.filingDate.s = filters.endDate.s
           \/ StringLess(filing.filingDate.s, filters.endDate.s))

HasLimit(filters) == filters.limit.k = "num" /\ filters.limit.n > 0

\* C26: filterFilings returns a subsequence of the filings, in their order,
\* that holds exactly the filings passing every supplied filter, cut to the
\* first `limit` of them when limit > 0: never more than `limit` entries, and
\* every entry passes every supplied filter.
C26_FilterFilings ==
  filt.pc = "returned" =>
    LET passing == {i \in 1..Len(filt.filings) :
                      PassesFilters(filt.filings[i], filt.filters)}
        n == IF HasLimit(filt.filters) /\ filt.filters.limit.n < Cardinality(passing)
             THEN filt.filters.limit.n ELSE Cardinality(passing)
    IN /\ IsSubsequence(filt.result, filt.filings)
       /\ \A k \in 1..Len(filt.result) : PassesFilters(filt.result[k], filt.filters)
       /\ Len(filt.result) = n
       /\ HasLimit(filt.filters) => Len(filt.result) <= filt.filters.limit.n
       \* the k-th entry is the k-th passing filing
       /\ \A k \in 1..Len(filt.result) :
            \E i \in passing :
              /\ Cardinality({j \in passing : j <= i}) = k
              /\ filt.result[k] = filt.filings[i]

\* C26 witness: three filings, the last two of them 10-K forms up to the end
\* date, and a limit that cuts the result to the first of the two
C26_Witness ==
  /\ filt.pc = "returned"
  /\ Len(filt.filings) = 3
  /\ Supplied(filt.filters.formType)
  /\ Supplied(filt.filters.endDate)
  /\ filt.filters.limit = Num(1)
  /\ Cardinality({i \in 1..3 : PassesFilters(filt.filings[i], filt.filters)}) = 2
  /\ ~PassesFilters(filt.filings[1], filt.filters)
  /\ filt.result = <<filt.filings[2]>>


-----------------------------------------------------------------------------
(* The CallToolRequestSchema handler (index.js).  A request is               *)
(* [name, hasArgs, method, given, filings]: given is the set of parameters   *)
(* that arrive with a truthy value, filings what the filings parameter is.   *)

Methods ==
  {"search_companies", "get_company_cik", "get_company_submissions",
   "get_company_facts", "get_company_concept", "get_frames_data", "filter_filings",
   "get_dimensional_facts", "search_facts_by_value", "build_fact_table",
   "time_series_dimensional_analysis"}

\* the parameters a case checks with `if (!p) throw`, in the order it checks
RequiredParams(method) ==
  CASE method = "search_companies" -> <<"query">>
    [] method = "get_company_cik" -> <<"ticker">>
    [] method = "get_company_submissions" -> <<"cik_or_ticker">>
    [] method = "get_company_facts" -> <<"cik_or_ticker">>
    [] method = "get_company_concept" -> <<"cik_or_ticker", "taxonomy", "tag">>
    [] method = "get_frames_data" -> <<"taxonomy", "tag", "unit", "frame">>
    [] method = "filter_filings" -> <<>>
    [] method = "get_dimensional_facts" ->
         <<"cik_or_ticker", "accession_number", "search_criteria">>
    [] method = "search_facts_by_value" -> <<"cik_or_ticker", "target_value">>
    [] method = "build_fact_table" -> <<"cik_or_ticker", "target_value">>
    [] method = "time_series_dimensional_analysis" -> <<"cik_or_ticker">>
    [] OTHER -> <<>>

\* the function a case calls once its checks have passed
OperationOf(method) ==
  CASE method = "search_companies" -> "searchCompanies"
    [] method = "get_company_cik" -> "getCompanyCik"
    [] method = "get_company_submissions" -> "getCompanySubmissions"
    [] method = "get_company_facts" -> "getCompanyFacts"
    [] method = "get_company_concept" -> "getCompanyConcept"
    [] method = "get_frames_data" -> "getFramesData"
    [] method = "filter_filings" -> "filterFilings"
    [] method = "get_dimensional_facts" -> "getDimensionalFacts"
    [] method = "search_facts_by_value" -> "searchFactsByValue"
    [] method = "build_fact_table" -> "buildFactTable"
    [] method = "time_series_dimensional_analysis" -> "timeSeriesDimensionalAnalysis"

NoResponse == [kind |-> "none", fields |-> {}, error |-> <<>>, result |-> ""]

\* { content: [{ type: 'text', text: JSON.stringify(results, null, 2) }] }
ResultResponse(operation) ==
  [kind |-> "text", fields |-> {"result"}, error |-> <<>>, result |-> operation]

\* text: JSON.stringify({ error: errorMessage }, null, 2)
ErrorResponse(errorMessage) ==
  [kind |-> "text", fields |-> {"error"}, error |-> errorMessage, result |-> ""]

Call(p, req, operation, response, thrown) ==
  [pc |-> p, request |-> req, invoked |-> operation, settled |-> "none",
   response |-> response, thrown |-> thrown]

\* mutant: the catch block passes the error on to the caller
HandlerCatch_Rethrows(req, operation, errorMessage) ==
  Call("threw", req, operation, NoResponse, errorMessage)

\* catch (error) { ... return { content: [{ type: 'text', text:
\* JSON.stringify({ error: errorMessage }) }] } }
HandlerCatch(req, operation, errorMessage) ==
  Call("responded", req, operation, ErrorResponse(errorMessage), <<>>)

\* the first required parameter that is not given, 0 when all are
FirstMissing(req) ==
  LET required == RequiredParams(req.method)
      missing == {i \in 1..Len(required) : required[i] \notin req.given}
  IN IF missing = {} THEN 0 ELSE CHOOSE i \in missing : \A j \in missing : i <= j

\* what an operation does once it is called
OperationOutcomes == {"returns", "throwsError", "throwsValue"}

\* the operation settled: its result is serialised, an Error gives its
\* message, anything else thrown gives String(error)
AfterOperation(req, operation, how) ==
  LET after ==
        CASE how = "returns" ->
               Call("responded", req, operation, ResultResponse(operation), <<>>)
          [] how = "throwsError" ->
               HandlerCatch(req, operation, <<"message of ", operation>>)
          [] how = "throwsValue" ->
               HandlerCatch(req, operation, <<"String of ", operation>>)
  IN [after EXCEPT !.settled = how]

\* the handler from its entry to its first await or to its end; `how` is
\* what filterFilings, which is not awaited, does
HandlerEntry(req, how) ==
  IF req.name # "sec-edgar"
  THEN Call("threw", req, "none", NoResponse, <<"Unknown tool: ", req.name>>)
  ELSE IF ~req.hasArgs
  THEN \* const { method, ...params } = undefined is a TypeError
       HandlerCatch(req, "none", <<"Cannot destructure property 'method'">>)
  ELSE IF req.method \notin Methods
  THEN HandlerCatch(req, "none", <<"Unknown method: ", req.method>>)
  ELSE IF req.method = "filter_filings"
  THEN IF req.filings # "array"
       THEN HandlerCatch(req, "none",
                         <<"filings array parameter is required for filter_filings">>)
       ELSE AfterOperation(req, "filterFilings", how)
  ELSE IF FirstMissing(req) # 0
  THEN HandlerCatch(req, "none",
                    <<RequiredParams(req.method)[FirstMissing(req)],
                      " parameter is required for ", req.method>>)
  ELSE Call("awaiting", req, OperationOf(req.method), NoResponse, <<>>)

ToolRequests ==
  [name : {"other"}, hasArgs : {TRUE}, method : {"search_companies"},
   given : {{"query"}}, filings : {"absent"}]
  \cup
  [name : {"sec-edgar"}, hasArgs : {FALSE}, method : {"undefined"},
   given : {{}}, filings : {"absent"}]
  \cup
  [name : {"sec-edgar"}, hasArgs : {TRUE}, method : {"undefined", "get_filing"},
   given : {{}, {"cik_or_ticker"}}, filings : {"absent"}]
  \cup
  [name : {"sec-edgar"}, hasArgs : {TRUE}, method : {"filter_filings"},
   given : {{}, {"form_type", "limit"}}, filings : {"absent", "array", "string"}]
  \cup
  UNION {[name : {"sec-edgar"}, hasArgs : {TRUE}, method : {m},
          given : SUBSET {RequiredParams(m)[i] : i \in 1..Len(RequiredParams(m))},
          filings : {"absent"}] : m \in Methods \ {"filter_filings"}}

ToolInit ==
  /\ call \in {Call("received", req, "none", NoResponse, <<>>) : req \in ToolRequests}
  /\ ppc = "idle"
  /\ markup = <<>>
  /\ criteria = NoCriteria
  /\ facts = <<>>
  /\ contexts = EmptyObject
  /\ matches = [threw |-> FALSE, list |-> <<>>]
  /\ NetIdle
  /\ SecondIdle /\ OtherIdle /\ FiltIdle /\ TblIdle

HandleCall ==
  /\ call.pc = "received"
  /\ \E how \in OperationOutcomes : call' = HandlerEntry(call.request, how)
  /\ UNCHANGED <<pureVars, netVars, second, other, filt, tbl>>

OperationSettled ==
  /\ call.pc = "awaiting"
  /\ \E how \in OperationOutcomes :
       call' = AfterOperation(call.request, call.invoked, how)
  /\ UNCHANGED <<pureVars, netVars, second, other, filt, tbl>>

ToolNext == HandleCall \/ OperationSettled

ToolSpec == ToolInit /\ [][ToolNext]_vars

\* C25: a get_dimensional_facts call with cik_or_ticker and search_criteria
\* but no accession_number is served from the most recent 10-Q filing:
\* getDimensionalFacts is called, resolves the accession number itself, and
\* the call is not answered with an error for the missing parameter.
C25_LatestFilingServed ==
  (/\ call.request.name = "sec-edgar"
   /\ call.request.method = "get_dimensional_facts"
   /\ call.request.given = {"cik_or_ticker", "search_criteria"}
   /\ call.pc # "received") =>
    /\ call.invoked = "getDimensionalFacts"
    /\ call.settled = "returns" => call.response = ResultResponse("getDimensionalFacts")
    /\ call.settled = "none" => call.response = NoResponse

\* a failure of the call: no arguments, an unknown method, a required
\* parameter that is missing, or an operation that threw
CallFailed ==
  \/ ~call.request.hasArgs
  \/ call.request.method \notin Methods
  \/ \E i \in 1..Len(RequiredParams(call.request.method)) :
       RequiredParams(call.request.method)[i] \notin call.request.given
  \/ call.request.method = "filter_filings" /\ call.request.filings # "array"
  \/ call.settled \in {"throwsError", "throwsValue"}

\* C30: for a call to the sec-edgar tool every failure (a missing required
\* parameter, an unknown method, an error raised by the operation) comes back
\* as a normal response whose text is a JSON object with an error field; the
\* handler throws only when the tool name is not sec-edgar.
C30_FailuresReturned ==
  /\ call.pc = "threw" =>
       /\ call.request.name # "sec-edgar"
       /\ call.thrown = <<"Unknown tool: ", call.request.name>>
  /\ (call.request.name = "sec-edgar" /\ call.pc = "responded" /\ CallFailed) =>
       /\ call.response.kind = "text"
       /\ call.response.fields = {"error"}
       /\ call.response.error # <<>>
  /\ (call.request.name = "sec-edgar" /\ call.pc = "awaiting") => ~CallFailed
  /\ (call.pc = "responded" /\ call.response.fields = {"result"}) =>
       ~CallFailed /\ call.invoked = OperationOf(call.request.method)

\* C30 witness: build_fact_table was called with its parameters, the
\* operation threw, and the call was answered with the error as JSON
C30_Witness ==
  /\ call.pc = "responded"
  /\ call.request.method = "build_fact_table"
  /\ call.invoked = "buildFactTable"
  /\ call.settled = "throwsError"
  /\ call.response = ErrorResponse(<<"message of ", "buildFactTable">>)

\* an unknown method and a missing parameter answered with an error
C30_ValidationWitness ==
  /\ call.pc = "responded"
  /\ call.request.method = "get_frames_data"
  /\ call.request.given = {"taxonomy", "tag", "frame"}
  /\ call.response = ErrorResponse(<<"unit", " parameter is required for ",
                                     "get_frames_data">>)


-----------------------------------------------------------------------------
(* buildFactTable (edgar-api.js).  A request is [cikOrTicker, targetValue,  *)
(* tolerance, accessionNumber, sortBy, maxRows]; what the functions it      *)
(* awaits answer is drawn from small pools.                                 *)

MathAbs(x) == IF x < 0 THEN -x ELSE x

DEFAULT_TOLERANCE == 50000000
DEFAULT_MAX_ROWS == 25
EXACT_MATCH_WINDOW == 1000
KNOWN_VALUE == 638000000
KNOWN_VALUE_WINDOW == 1000000
US_EP_VALUE == 645000000

TARGET_CONCEPT == "RevenueFromContractWithCustomerExcludingAssessedTax"

TableFact(concept, value, factType) ==
  [concept |-> concept, value |-> value, factType |-> factType]

\* companyFacts is [hasConcept, usd]: usd the values of
\* facts['us-gaap'][targetConcept].units.USD
buildFactsFromCompanyAPI(companyFacts, targetValue, tolerance) ==
  LET inRange(val) == val >= targetValue - tolerance /\ val <= targetValue + tolerance
      matchingValues == SelectSeq(companyFacts.usd, inRange)
      known(val) == MathAbs(val - KNOWN_VALUE) < KNOWN_VALUE_WINDOW
      notKnown(val) == ~known(val)
      exact == SelectSeq(matchingValues, known)
      others == SelectSeq(matchingValues, notKnown)
  IN IF ~companyFacts.hasConcept THEN <<>>
     ELSE (IF exact = <<>> THEN <<>>
           ELSE <<TableFact(TARGET_CONCEPT, exact[1], "inferred")>>
                  \o (IF MathAbs(US_EP_VALUE - targetValue) <= tolerance
                      THEN <<TableFact(TARGET_CONCEPT, US_EP_VALUE, "inferred")>>
                      ELSE <<>>))
          \o [i \in 1..Len(others) |-> TableFact(TARGET_CONCEPT, others[i], "api_aggregate")]

\* facts.map((fact, index) => ({ rowNumber: index + 1, ... }))
EnrichedFacts(fs, targetValue) ==
  [i \in 1..Len(fs) |->
     [rowNumber |-> i, concept |-> fs[i].concept, value |-> fs[i].value,
      exactMatch |-> MathAbs(fs[i].value - targetValue) < EXACT_MATCH_WINDOW,
      deviationFromTarget |-> fs[i].value - targetValue,
      factType |-> fs[i].factType]]

\* the place of a concept in localeCompare order
ConceptRank(concept) == IF concept = "Assets" THEN 1 ELSE 2

\* what the comparator of Array.prototype.sort orders by; the sort is stable
SortKey(row, sortBy) ==
  CASE sortBy = "deviation" -> MathAbs(row.deviationFromTarget)
    [] sortBy = "value" -> -row.value
    [] sortBy = "concept" -> ConceptRank(row.concept)
    [] OTHER -> 0

SortedRows(rows, sortBy) ==
  LET place(i) ==
        1 + Cardinality({j \in 1..Len(rows) :
              \/ SortKey(rows[j], sortBy) < SortKey(rows[i], sortBy)
              \/ SortKey(rows[j], sortBy) = SortKey(rows[i], sortBy) /\ j < i})
  IN [k \in 1..Len(rows) |-> rows[CHOOSE i \in 1..Len(rows) : place(i) = k]]

NoTable == [kind |-> "pending", message |-> <<>>, table |-> <<>>, totalFacts |-> 0,
            exactMatches |-> 0]

TableThrew(message) == [NoTable EXCEPT !.kind = "threw", !.message = message]

\* the object buildFactTable returns for these facts
TableResult(req, fs) ==
  IF fs = <<>>
  THEN [NoTable EXCEPT !.kind = "returned"]
  ELSE LET enrichedFacts == SortedRows(EnrichedFacts(fs, req.targetValue), req.sortBy)
           shown == IF req.maxRows < Len(enrichedFacts) THEN req.maxRows
                    ELSE Len(enrichedFacts)
       IN [NoTable EXCEPT
             !.kind = "returned",
             !.table = SubSeq(enrichedFacts, 1, shown),
             !.totalFacts = Len(enrichedFacts),
             !.exactMatches = Cardinality({i \in 1..Len(enrichedFacts) :
                                             enrichedFacts[i].exactMatch})]

Table(p, t, operation, how, result) ==
  [t EXCEPT !.pc = p,
            !.calls = IF operation = "none" THEN @ ELSE Append(@, operation),
            !.settled = IF how = "none" THEN @ ELSE Append(@, how),
            !.result = result]

\* mutant: the failure of getDimensionalFacts ends buildFactTable
DimensionalCatch_Rethrows(t) ==
  Table("done", t, "none", "threw", TableThrew(<<"Failed to get dimensional facts: ">>))

\* catch (dimensionalError) { try { companyFacts = await getCompanyFacts(cik)
DimensionalCatch(t) == Table("awaitCompanyFacts", t, "getCompanyFacts", "threw", NoTable)

\* catch (apiError) {}: facts stays the empty list it was declared as
ApiCatch(t) == Table("done", t, "none", "threw", TableResult(t.request, <<>>))

\* from the known CIK to the next request
TableAfterCik(t, how) ==
  IF Truthy(t.request.accessionNumber)
  THEN Table("awaitDimensional", t, "getDimensionalFacts", how, NoTable)
  ELSE Table("awaitSubmissions", t, "getCompanySubmissions", how, NoTable)

TableRequests ==
  [cikOrTicker : {NumericCik, Ticker},
   targetValue : {KNOWN_VALUE, 600000000},
   tolerance : {DEFAULT_TOLERANCE, 5000000},
   accessionNumber : {Undefined, Str(Acc)},
   sortBy : {"deviation", "value", "concept"},
   maxRows : {DEFAULT_MAX_ROWS, 1}]

\* searchResult.matchingFacts of a call that returned
MatchingFactsPool ==
  { <<>>,
    <<TableFact("Revenues", 650000000, "nonFraction"),
      TableFact("Assets", 638000400, "nonFraction"),
      TableFact("Revenues", 601000000, "nonFraction")>> }

CompanyFactsPool ==
  { [hasConcept |-> FALSE, usd |-> <<>>],
    [hasConcept |-> TRUE, usd |-> <<900000000>>],
    [hasConcept |-> TRUE, usd |-> <<620000000, 638000500, 599000000>>] }

TableInit ==
  /\ tbl \in [pc : {"start"}, request : TableRequests, calls : {<<>>},
              settled : {<<>>}, result : {NoTable}]
  /\ ppc = "idle"
  /\ markup = <<>>
  /\ criteria = NoCriteria
  /\ facts = <<>>
  /\ contexts = EmptyObject
  /\ matches = [threw |-> FALSE, list |-> <<>>]
  /\ NetIdle
  /\ SecondIdle /\ OtherIdle /\ CallIdle /\ FiltIdle

TableStart ==
  /\ tbl.pc = "start"
  /\ tbl' = IF AllDigits(tbl.request.cikOrTicker)
            THEN TableAfterCik(tbl, "none")
            ELSE Table("awaitCik", tbl, "getCompanyCik", "none", NoTable)
  /\ UNCHANGED <<pureVars, netVars, second, other, call, filt>>

\* getCompanyCik settled: a failure and an unknown ticker leave through the
\* outer catch, which throws the error again
TableCikAnswered ==
  /\ tbl.pc = "awaitCik"
  /\ \/ tbl' = Table("done", tbl, "none", "threw",
                     TableThrew(<<"Failed to lookup CIK for ticker ">>))
     \/ tbl' = Table("done", tbl, "none", "returned",
                     TableThrew(<<"Could not find CIK for ", Text(tbl.request.cikOrTicker)>>))
     \/ tbl' = TableAfterCik(tbl, "returned")
  /\ UNCHANGED <<pureVars, netVars, second, other, call, filt>>

TableSubmissionsAnswered ==
  /\ tbl.pc = "awaitSubmissions"
  /\ \/ tbl' = Table("done", tbl, "none", "threw",
                     TableThrew(<<"Failed to get company submissions">>))
     \/ tbl' = Table("done", tbl, "none", "returned",
                     TableThrew(<<"No recent 10-Q filing found">>))
     \/ tbl' = Table("awaitDimensional", tbl, "getDimensionalFacts", "returned", NoTable)
  /\ UNCHANGED <<pureVars, netVars, second, other, call, filt>>

DimensionalFactsAnswered ==
  /\ tbl.pc = "awaitDimensional"
  /\ \/ tbl' = DimensionalCatch(tbl)
     \/ \E fs \in MatchingFactsPool :
          tbl' = Table("done", tbl, "none", "returned", TableResult(tbl.request, fs))
  /\ UNCHANGED <<pureVars, netVars, second, other, call, filt>>

CompanyFactsAnswered ==
  /\ tbl.pc = "awaitCompanyFacts"
  /\ \/ tbl' = ApiCatch(tbl)
     \/ \E cf \in CompanyFactsPool :
          tbl' = Table("done", tbl, "none", "returned",
                       TableResult(tbl.request,
                                   buildFactsFromCompanyAPI(cf, tbl.request.targetValue,
                                                            tbl.request.tolerance)))
  /\ UNCHANGED <<pureVars, netVars, second, other, call, filt>>

TableNext ==
  \/ TableStart
  \/ TableCikAnswered
  \/ TableSubmissionsAnswered
  \/ DimensionalFactsAnswered
  \/ CompanyFactsAnswered

TableSpec == TableInit /\ [][TableNext]_vars

\* how the k-th call of the invocation settled, "none" while it is awaited
SettledAs(k) == IF k >= 1 /\ k <= Len(tbl.settled) THEN tbl.settled[k] ELSE "none"

\* the position of the call of this operation, 0 when it was not called
CallOf(operation) ==
  LET at == {k \in 1..Len(tbl.calls) : tbl.calls[k] = operation}
  IN IF at = {} THEN 0 ELSE CHOOSE k \in at : TRUE

\* C27: when getDimensionalFacts fails inside buildFactTable, buildFactTable
\* does not fail: it calls the Company Facts API next, and when that fails
\* too it returns a result with an empty table and summary.totalFacts 0.
C27_FallbackNeverFails ==
  (CallOf("getDimensionalFacts") # 0
   /\ SettledAs(CallOf("getDimensionalFacts")) = "threw") =>
    /\ CallOf("getCompanyFacts") = CallOf("getDimensionalFacts") + 1
    /\ tbl.pc = "done" =>
         /\ tbl.result.kind = "returned"
         /\ SettledAs(CallOf("getCompanyFacts")) = "threw" =>
              /\ tbl.result.table = <<>>
              /\ tbl.result.totalFacts = 0
         /\ Len(tbl.result.table) <= tbl.result.totalFacts
    /\ tbl.pc # "done" => tbl.pc = "awaitCompanyFacts"

\* C27 witness: getDimensionalFacts and then getCompanyFacts failed, and the
\* invocation returned the empty table
C27_Witness ==
  /\ tbl.pc = "done"
  /\ SettledAs(CallOf("getDimensionalFacts")) = "threw"
  /\ SettledAs(CallOf("getCompanyFacts")) = "threw"
  /\ tbl.result.kind = "returned"
  /\ tbl.result.table = <<>>
  /\ tbl.result.totalFacts = 0

\* the fallback answered and its values made a table of four rows
C27_FallbackRows ==
  /\ tbl.pc = "done"
  /\ SettledAs(CallOf("getDimensionalFacts")) = "threw"
  /\ tbl.result.totalFacts = 4
  /\ Len(tbl.result.table) = 4
  /\ tbl.result.table[1].exactMatch
  /\ tbl.result.table[2].value = US_EP_VALUE


-----------------------------------------------------------------------------
(* Two invocations of getDimensionalFacts whose steps interleave.  The      *)
(* first uses the variables of NetSpec; the second lives in `other`, a      *)
(* record of its own arguments, position, locals, request log and outcome.  *)

\* what an answer carries; only the fields its request reads are meaningful
Answer(st, body) ==
  [st |-> st, doc |-> body.primaryDoc, anchors |-> body.anchors, html |-> body.html,
   cik |-> body.cik]

\* one step of an invocation with arguments a in configuration c: the answer
\* to its outstanding request arrives and the code runs on to its next
\* request or to its end (from "start": the code up to its first request)
StepOf(a, c, ans) ==
  LET l == c.loc
      failed == Answered(c.reqLog, ans.st, NoBody)
  IN CASE c.pc = "start" ->
            IF a.entry = "locate"
            THEN CallLocator(a, l, c.reqLog, a.cikOrTicker, a.primaryDocument)
            ELSE IF AllDigits(a.cikOrTicker)
            THEN CallLocatorFromFacts(a, l, c.reqLog, a.cikOrTicker)
            ELSE Issue("awaitCik", l, c.reqLog,
                       Request(0, "GET", TickersUrl, TICKERS_TIMEOUT))
       [] c.pc = "awaitCik" ->
            IF ans.st \in FailAnswers
            THEN Cfg("done", l, failed,
                     Threw(<<"Failed to lookup CIK for ticker ", Text(a.cikOrTicker), ": ">>
                           \o AxiosMessage(failed[Len(failed)])))
            ELSE IF ans.cik = <<>>
            THEN Cfg("done", l, Answered(c.reqLog, "200", TickersBody(<<>>)),
                     Threw(<<"Could not find CIK for ticker: ", Text(a.cikOrTicker)>>))
            ELSE CallLocatorFromFacts(a, l, Answered(c.reqLog, "200", TickersBody(ans.cik)),
                                      ans.cik)
       [] c.pc = "awaitHistory" ->
            IF ans.st \in FailAnswers
            THEN TryKnown(a, l, failed)
            ELSE AfterHistory(a, l, Answered(c.reqLog, "200", HistoryBody(ans.doc)), ans.doc)
       [] c.pc = "awaitHistoryHead" ->
            HeadAnswer(a, l, failed, ans.st, TryKnown(a, l, failed))
       [] c.pc = "awaitKnownHead" ->
            HeadAnswer(a, l, failed, ans.st, TryIndex(a, l, failed))
       [] c.pc = "awaitIndex" ->
            IF ans.st \in FailAnswers
            THEN IndexCatch(a, l, failed)
            ELSE AfterIndex(a, l, Answered(c.reqLog, "200", IndexBody(ans.anchors)),
                            ans.anchors)
       [] c.pc = "awaitListHead" ->
            HeadAnswer(a, l, failed, ans.st, TryListed(a, l, failed, l.i + 1))
       [] c.pc = "awaitFallbackHead" ->
            HeadAnswer(a, l, failed, ans.st, TryFallback(a, l, failed, l.i + 1))
       [] c.pc = "awaitDownload" ->
            IF ans.st \in FailAnswers
            THEN ParseCatch(l, failed, AxiosMessage(failed[Len(failed)]))
            ELSE ParseAndMatch(a, l, Answered(c.reqLog, "200", DocumentBody(ans.html)),
                               ans.html)
       [] OTHER -> c

NotStarted == Cfg("start", NoLocals, <<>>, Pending)

RECURSIVE ReplayFrom(_, _, _, _)
ReplayFrom(a, c, log, k) ==
  IF k > Len(log) \/ log[k].status = "pending" THEN c
  ELSE ReplayFrom(a, StepOf(a, c, Answer(log[k].status, log[k].body)), log, k + 1)

\* the configuration the invocation reaches when it runs alone and its
\* requests get the answers this log holds
RunAlone(a, log) ==
  IF log = <<>> THEN NotStarted
  ELSE ReplayFrom(a, StepOf(a, NotStarted, Answer("200", NoBody)), log, 1)

\* mutant: the locals are variables of the module, so a step runs on what
\* the other invocation last wrote to them
Mine_SharedLocals(own, foreign) == [own EXCEPT !.loc = foreign.loc]

\* the configuration a step of an invocation runs on: its own, whatever the
\* other invocation holds (every local is a const or let of the call)
Mine(own, foreign) == own

PairArgs ==
  [entry |-> "facts", cikOrTicker |-> Ticker, accessionNumber |-> Acc,
   primaryDocument |-> Undefined, criteria |-> NoCriteria]

OtherArgs ==
  [entry |-> "facts", cikOrTicker |-> NumericCik, accessionNumber |-> Acc,
   primaryDocument |-> Undefined, criteria |-> GeoCriteria]

\* the answers the requests of the two invocations get
PairAnswers ==
  { Answer("403", NoBody),
    Answer("200", [kind |-> "any", primaryDoc |-> Str(R_HTM),
                   anchors |-> <<Anchor(Q_HTM, FALSE)>>,
                   html |-> <<Leaf("ix:nonFraction",
                                   <<Attr("name", gRev), Attr("contextRef", c1)>>,
                                   <<"6", "3", "8">>),
                              Elem("ix:context", <<Attr("id", c1)>>, <<>>, InstantGeo)>>,
                   cik |-> PaddedCik]) }

OtherCfg == Cfg(other.pc, other.loc, other.reqLog, other.outcome)

FirstCfg == Cfg(pc, loc, reqLog, outcome)

PairInit ==
  /\ pc = "start"
  /\ args = PairArgs
  /\ loc = NoLocals
  /\ reqLog = <<>>
  /\ outcome = Pending
  /\ other = [args |-> OtherArgs, pc |-> "start", loc |-> NoLocals, reqLog |-> <<>>,
              outcome |-> Pending]
  /\ PureIdle
  /\ SecondIdle /\ CallIdle /\ FiltIdle /\ TblIdle

\* a step of the first invocation
FirstStep ==
  /\ pc # "done"
  /\ \E ans \in PairAnswers :
       Become(StepOf(args, Mine(FirstCfg, OtherCfg), ans))

\* a step of the second invocation
OtherStep ==
  /\ other.pc # "done"
  /\ \E ans \in PairAnswers :
       LET c == StepOf(other.args, Mine(OtherCfg, FirstCfg), ans)
       IN other' = [args |-> other.args, pc |-> c.pc, loc |-> c.loc,
                    reqLog |-> c.reqLog, outcome |-> c.outcome]
  /\ UNCHANGED <<pureVars, netVars, second, call, filt, tbl>>

PairNext == FirstStep \/ OtherStep

PairSpec == PairInit /\ [][PairNext]_vars

\* the steps of NetSpec and StepOf are the same steps: the invocation of
\* NetSpec is where the replay of its own answers ends
ReplayAgrees == FirstCfg = RunAlone(args, reqLog)

\* each invocation is where it is when run alone against the answers its own
\* requests got
C23_SameAsAlone ==
  /\ FirstCfg = RunAlone(args, reqLog)
  /\ OtherCfg = RunAlone(other.args, other.reqLog)

\* a step changes one invocation and leaves the other as it was
C23_Frame ==
  \/ UNCHANGED other
  \/ UNCHANGED netVars

====
